---- MODULE Spec2Model ----
(***************************************************************************)
(* DICOM worklist tools: the association sessions opened by c_echo,        *)
(* get_worklist, get_worklist_dataset (tools/dicom_communication.py) and   *)
(* send_worklist_item (tools/worklist_manager.py), the C-FIND query they   *)
(* build, and the REST query of get_worklists_by_date_range (worklist.py). *)
(* dicom_tools.py holds textual copies of the four session functions; the  *)
(* copies differ only in the default local AE title and the staging        *)
(* directory, neither of which is state here.                              *)
(* Further: the dataset dicom_tools.main builds for its query, the files   *)
(* written by send_worklist_item, tools/mwl_converter.py and                *)
(* upload_worklist_to_orthanc (worklist.py), the projection of             *)
(* dicom_to_json (tools/utils.py), display_worklist and                    *)
(* create_worklist_item (tools/worklist_manager.py).                       *)
(*                                                                         *)
(* The peer and the pynetdicom library are the environment: every call     *)
(* into the library (associate, send_c_echo, send_c_find, send_c_store,    *)
(* release) is a step whose outcome is chosen nondeterministically among   *)
(* the outcomes the library documents (a status dataset, an empty status   *)
(* after a timeout or an invalid response, in which case the library has   *)
(* aborted the association, or an exception).                              *)
(***************************************************************************)
EXTENDS Integers, Sequences, FiniteSets, TLC

VARIABLES
    pc,          \* position of the running function
    op,          \* the function that was called
    args,        \* its arguments
    assoc,       \* state of the pynetdicom Association object
    calledAE,    \* called AE title of the association request
    events,      \* history of what happened on the wire, oldest first
    status,      \* local `status` (a Dataset; empty when the exchange failed)
    query,       \* the dataset handed to send_c_find (<<>> before it is set)
    received,    \* history of the (status, identifier) pairs send_c_find yielded
    responses,   \* local `responses`
    result,      \* how the function ended: a returned value or a raised exception
    report,      \* what dicom_tools.main logged about the C-ECHO
    exitCode,    \* value returned by dicom_tools.main (-1: has not returned)
    sopUid,      \* SOP instance UID generated by send_worklist_item
    files,       \* staging directory: set of <<path, SOP instance UID>>
    generated,   \* the UIDs generate_uid() has returned, oldest first
    fileDataset, \* local `file_dataset` / `ds`: the FileDataset made for writing
    written,     \* contents of the file last written (<<>>: none yet)
    sent,        \* history of the datasets handed to send_c_store
    stdout,      \* what was printed, oldest first
    results,     \* the identifiers the find-worklist request returned
    todo,        \* what the running loop has still to go through
    handled,     \* what the loop went through, oldest first
    worklists,   \* local `worklists` of get_worklists_by_date_range
    success_count, \* local `success_count` of batch_create_command
    outcomes     \* the operations a command line run performed, with their success

\* The state outside the association sessions.
xvars == <<generated, fileDataset, written, sent, stdout>>

\* The state of the command line programs and of their loops.
cvars == <<results, todo, handled, worklists, success_count, outcomes>>

vars == <<pc, op, args, assoc, calledAE, events, status, query, received,
          responses, result, report, exitCode, sopUid, files,
          generated, fileDataset, written, sent, stdout,
          results, todo, handled, worklists, success_count, outcomes>>

-----------------------------------------------------------------------------
(* Bounds *)

\* Largest number of pending C-FIND responses the peer streams before the
\* final one.
MaxResponses == 2

\* Largest number of calls of send_worklist_item in a row.
MaxCalls == 2

\* Deepest nesting of sequences in a dataset given to dicom_to_json.
MaxDepth == 1

\* Largest number of identifiers a find-worklist request returns.
MaxIds == 2

\* Largest number of entries in the JSON file of the batch command.
MaxItems == 2

-----------------------------------------------------------------------------
(* Python values *)

\* An optional value: <<>> is None, <<v>> is the value v.
NoneVal == <<>>
Some(v) == <<v>>

\* Truth value of an optional str: None and '' are false.
StrTruthy(o) == o # NoneVal /\ o[1] # ""

\* pydicom Dataset: a function from attribute names to values; a Dataset with
\* no elements is false.
EmptyDataset == [t \in {} |-> ""]
DatasetTruthy(d) == DOMAIN d # {}

\* Truth value of an optional Dataset (the identifier of a C-FIND response).
IdentifierTruthy(o) == o # NoneVal /\ DatasetTruthy(o[1])

\* A status Dataset holding the Status element.
StatusOf(s) == [Status |-> s]

-----------------------------------------------------------------------------
(* Inputs *)

Hosts == {"10.10.0.1", "localhost"}
Ports == {4242}
AETitles == {"MERCURE"}

\* Filter arguments of the session specification.
StartDates == {NoneVal, Some("20250101")}
EndDates == {NoneVal, Some("20250107")}
PatientNames == {NoneVal, Some("DOE*")}
Modalities == {NoneVal, Some("US")}

\* Filter arguments of the query-builder specification: None, '' and a value.
QStartDates == {NoneVal, Some(""), Some("20250101"), Some("20250107")}
QEndDates == {NoneVal, Some(""), Some("20250107"), Some("20250101")}
QPatientNames == {NoneVal, Some(""), Some("DOE*")}
QModalities == {NoneVal, Some(""), Some("US")}

\* Status codes a peer answers with: success, a failure (out of resources),
\* and the pending code of C-FIND.
FinalStatuses == {0, 42752}
PendingStatuses == {65280}
EchoStatuses == {0, 42752, 49152}

\* Identifiers of pending C-FIND responses: two matches, an identifier with
\* no elements, and None (the library could not decode it).
Match1 == [AccessionNumber |-> "ACC001", PatientName |-> "DOE^JOHN"]
Match2 == [AccessionNumber |-> "ACC002", PatientName |-> "ROE^JANE"]
Identifiers == {NoneVal, Some(EmptyDataset), Some(Match1), Some(Match2)}

\* A dataset the caller of get_worklist_dataset supplies.
CustomDataset ==
    [QueryRetrieveLevel |-> "WORKLIST",
     PatientName |-> "ROE*",
     PatientID |-> "",
     AccessionNumber |-> "ACC002"]

\* A dataset of the caller that has no QueryRetrieveLevel.
BareDataset == [PatientName |-> "ROE*", PatientID |-> "4711"]

\* The `dataset` argument of get_worklist_dataset: None or a Dataset.
Datasets == {NoneVal, Some(CustomDataset), Some(BareDataset)}

\* Worklist items handed to send_worklist_item. PatientName is kept as a
\* sequence of characters because the staging path rewrites it.
Items ==
    {[PatientName |-> <<"D", "^", "J">>, AccessionNumber |-> "ACC001"],
     [PatientName |-> <<"D", "_", "J">>, AccessionNumber |-> "ACC001"]}

Uids == {"1.2.826.0.1.1", "1.2.826.0.1.2", "1.2.826.0.1.3", "1.2.826.0.1.4"}

\* Contents of the text file convert_request_to_dcm reads: the labelled
\* values found in it.
Contents ==
    {[PatientName |-> "DOE^JOHN", PatientID |-> "488390", AccessionNumber |-> "5880936",
      Modality |-> "US"],
     [PatientName |-> "DOE^JOHN", Modality |-> "US"],
     EmptyDataset}

\* Datasets handed to upload_worklist_to_orthanc: what create_worklist_item
\* returns, a Dataset that is not a FileDataset.
CreatedItems ==
    {[PatientName |-> "DOE^JOHN", PatientID |-> "488390", AccessionNumber |-> "ACC001"],
     [PatientName |-> "ROE^JANE", PatientID |-> "488391", AccessionNumber |-> "ACC002"]}

NoArgs ==
    [ip |-> "", port |-> 0, remote_ae |-> "",
     start_date |-> NoneVal, end_date |-> NoneVal,
     patient_name |-> NoneVal, modality |-> NoneVal, dataset |-> NoneVal]

-----------------------------------------------------------------------------
(* Datasets read by dicom_to_json *)

\* Values of data elements: None, bytes, another Python value, or the items
\* of a sequence.
PyNone == [kind |-> "None"]
PyBytes(b) == [kind |-> "bytes", bytes |-> b]
PyValue(v) == [kind |-> "value", value |-> v]
PyItems(items) == [kind |-> "items", items |-> items]

\* Byte strings: b'Hi', b'\xc3\xa9' (the UTF-8 encoding of one character),
\* b'\xffH' (no UTF-8) and b'H\xc3' (cut in the middle of a character).
ByteStrings == {<<72, 105>>, <<195, 169>>, <<255, 72>>, <<72, 195>>}

PixelOptions ==
    {EmptyDataset} \cup
    {("Pixel Data" :> [VR |-> "OW", value |-> PyBytes(b)]) : b \in ByteStrings}

DocumentOptions ==
    {EmptyDataset} \cup
    {("Encapsulated Document" :> [VR |-> "OB", value |-> v]) :
        v \in {PyNone} \cup {PyBytes(b) : b \in ByteStrings}}

\* Datasets without a sequence: a dataset is a function from the names of
\* its elements to their VR and value.
LeafDatasets ==
    {("Modality" :> [VR |-> "CS", value |-> PyValue("US")]) @@ p @@ d :
        p \in PixelOptions, d \in DocumentOptions}

\* Datasets whose sequences nest at most d deep.
RECURSIVE DatasetsOfDepth(_)
DatasetsOfDepth(d) ==
    IF d = 0 THEN LeafDatasets
    ELSE LET inner == DatasetsOfDepth(d - 1)
         IN  inner \cup
             {("Icon Image Sequence" :> [VR |-> "SQ", value |-> v]) @@ leaf :
                 leaf \in LeafDatasets,
                 v \in {PyNone, PyItems(<<>>)} \cup {PyItems(<<x>>) : x \in inner}}

-----------------------------------------------------------------------------
(* Worklist items given to display_worklist *)

TopOptions ==
    {n @@ i @@ a :
        n \in {EmptyDataset, [PatientName |-> "DOE^JOHN"]},
        i \in {EmptyDataset, [PatientID |-> "488390"]},
        a \in {EmptyDataset, [AccessionNumber |-> "ACC001"]}}

SpsOptions ==
    {EmptyDataset,
     [ScheduledProcedureStepSequence |-> <<>>],
     [ScheduledProcedureStepSequence |-> << [Modality |-> "US"] >>],
     [ScheduledProcedureStepSequence |->
        << [Modality |-> "US", ScheduledProcedureStepStartDate |-> "20250101"] >>]}

\* Responses of a worklist query: attributes the peer did not return are
\* not in the dataset.
WorklistEntries == {t @@ q : t \in TopOptions, q \in SpsOptions}

WorklistLists == {<<>>} \cup {<<e>> : e \in WorklistEntries}

-----------------------------------------------------------------------------
(* Arguments of create_worklist_item *)

\* Entries of the JSON file of batch_create_command: any key may be missing.
BatchItems ==
    {n @@ i @@ x :
        n \in {EmptyDataset, [patient_name |-> "DOE^JOHN"], [patient_name |-> ""]},
        i \in {EmptyDataset, [patient_id |-> "488390"]},
        x \in {EmptyDataset, [sex |-> "M"]}}

\* The arguments with their defaults.
CreateDefaults ==
    [patient_name |-> "", patient_id |-> "", accession_number |-> "ACC001",
     scheduled_procedure_step_start_date |-> "20250101",
     scheduled_procedure_step_start_time |-> "093000",
     modality |-> "US",
     requested_procedure_description |-> "Ultrasound",
     scheduled_station_name |-> "STATION1",
     scheduled_station_ae_title |-> "STATION1",
     referring_physician_name |-> "",
     patient_birth_date |-> "",
     patient_sex |-> "",
     medical_alerts |-> "",
     contrast_allergies |-> ""]

-----------------------------------------------------------------------------
(* Command lines of worklist_cli *)

Commands == {"create", "list", "get", "batch"}

\* args.command: None when no subcommand is given.
CommandOptions == {NoneVal} \cup {Some(c) : c \in Commands}

\* Entries of the JSON file of the batch command.
FileItems == {EmptyDataset, [patient_name |-> "DOE^JOHN", patient_id |-> "488390"]}

\* What open(args.file) and json.load give: an exception, a value that
\* is not a list, or a list of entries.
FileContents ==
    {[kind |-> "unreadable"], [kind |-> "notlist"]}
        \cup {[kind |-> "list", items |-> l] :
                 l \in UNION {[1..n -> FileItems] : n \in 0..MaxItems}}

-----------------------------------------------------------------------------
(* Command lines of dicom_tools *)

\* The action flags of dicom_tools.main; dicom_to_json stands for a
\* given path.
MainFlags ==
    [convert : BOOLEAN, echo : BOOLEAN, get_worklist : BOOLEAN,
     sample_worklist : BOOLEAN, create_worklist : BOOLEAN,
     dicom_to_json : BOOLEAN]

-----------------------------------------------------------------------------
(* Answers of the REST server *)

InstanceIds == {"id-a", "id-b", "id-c"}

\* The JSON lists of identifiers a find-worklist request may return: no
\* identifier twice.
ResultLists ==
    UNION {{r \in [1..n -> InstanceIds] : \A i, j \in 1..n : i # j => r[i] # r[j]} :
              n \in 0..MaxIds}

\* The JSON of an instance: any key may be missing.
InstanceData ==
    {[PatientName |-> "DOE^JOHN", PatientID |-> "488390", AccessionNumber |-> "ACC001"],
     [PatientID |-> "488391"]}

-----------------------------------------------------------------------------
(* Results *)

NoResult == [kind |-> "none"]
Return(v) == [kind |-> "return", value |-> v]
Raise(e) == [kind |-> "raise", exc |-> e]

NoReport == [level |-> "none", msg |-> "", status |-> -1]

-----------------------------------------------------------------------------
(* Library calls: what the association object does *)

\* A check that only looks for an abort lets a rejected association through.
IsEstablishedUnlessAborted(a) == a \in {"established", "rejected"}

\* assoc.is_established
IsEstablished(a) == a = "established"

\* ae.associate(...): the peer accepts, rejects, or cannot be reached.
AssociateOutcomes == {"established", "rejected", "aborted"}

AssociateEvent(a) ==
    CASE a = "established" -> "accepted"
      [] a = "rejected" -> "rejected"
      [] OTHER -> "failed"

\* assoc.release(): nothing happens unless the association is established;
\* the release completes, or times out and the association is aborted.
ReleaseOutcomes(a) == IF IsEstablished(a) THEN {"released", "aborted"} ELSE {a}

ReleaseEvent(before, after) ==
    IF after = before THEN <<>>
    ELSE IF after = "released" THEN <<"release">>
    ELSE <<"release_timeout">>

\* How often the association was taken down, by a release, a release that
\* timed out, or an abort.
TearDowns(ev) ==
    Cardinality({i \in 1..Len(ev) : ev[i] \in {"release", "release_timeout", "abort"}})

Count(ev, e) == Cardinality({i \in 1..Len(ev) : ev[i] = e})

-----------------------------------------------------------------------------
(* Pure parts of the functions *)

\* f"{x}" of an optional str
Fmt(o) == IF o = NoneVal THEN "None" ELSE o[1]

\* The message without the AE title.
AssociationFailedNoAE(a) ==
    [msg |-> "Association failed with server", ip |-> a.ip, port |-> a.port,
     ae |-> ""]

\* Exception(f'Association failed with server {ip}:{port} using AE Title: {remote_ae}')
AssociationFailed(a) ==
    [msg |-> "Association failed with server", ip |-> a.ip, port |-> a.port,
     ae |-> a.remote_ae]

\* Exception('C-Echo error: ', status)
CEchoError(st) == [msg |-> "C-Echo error: ", status |-> st]

\* An exception raised inside the library while a request is in flight.
LibraryError == [msg |-> "library error"]

\* ae_title of the association request of c_echo: the library default when
\* remote_ae is empty.
EchoCalledAE(remote_ae) == IF remote_ae = "" THEN "ANY-SCP" ELSE remote_ae

\* Success returned whatever the peer answered.
EchoReturnZero(st) == 0

\* return status.Status
EchoReturn(st) == st.Status

\* The dates tested for None in place of their truth value.
DateRangeNotNone(start_date, end_date) ==
    IF start_date # NoneVal /\ end_date # NoneVal
    THEN Fmt(start_date) \o "-" \o Fmt(end_date)
    ELSE IF start_date # NoneVal THEN start_date[1]
    ELSE ""

\* The two dates the wrong way round.
DateRangeSwapped(start_date, end_date) ==
    IF StrTruthy(start_date) /\ StrTruthy(end_date)
    THEN Fmt(end_date) \o "-" \o Fmt(start_date)
    ELSE IF StrTruthy(start_date) THEN start_date[1]
    ELSE ""

\* ScheduledProcedureStepStartDate of the query
DateRange(start_date, end_date) ==
    IF StrTruthy(start_date) /\ StrTruthy(end_date)
    THEN Fmt(start_date) \o "-" \o Fmt(end_date)
    ELSE IF StrTruthy(start_date) THEN start_date[1]
    ELSE ""

\* An empty filter taken for an absent one.
QueryPatientNameTruthy(patient_name) ==
    IF StrTruthy(patient_name) THEN patient_name[1] ELSE "*"

\* ds.PatientName = '*' if patient_name is None else patient_name
QueryPatientName(patient_name) ==
    IF patient_name = NoneVal THEN "*" ELSE patient_name[1]

\* The modality put next to the sequence instead of inside its item.
BuildQueryModalityOnTop(a) ==
    [QueryRetrieveLevel |-> "WORKLIST",
     PatientName |-> QueryPatientName(a.patient_name),
     PatientID |-> "",
     AccessionNumber |-> "",
     RequestedProcedureDescription |-> "",
     StudyInstanceUID |-> "",
     Modality |-> IF StrTruthy(a.modality) THEN a.modality[1] ELSE "",
     ScheduledProcedureStepSequence |->
        << [ScheduledProcedureStepStartDate |-> DateRange(a.start_date, a.end_date),
            ScheduledProcedureStepStartTime |-> ""] >>]

\* The C-FIND dataset get_worklist and get_worklist_dataset build.
BuildQuery(a) ==
    [QueryRetrieveLevel |-> "WORKLIST",
     PatientName |-> QueryPatientName(a.patient_name),
     PatientID |-> "",
     AccessionNumber |-> "",
     RequestedProcedureDescription |-> "",
     StudyInstanceUID |-> "",
     ScheduledProcedureStepSequence |->
        << [ScheduledProcedureStepStartDate |-> DateRange(a.start_date, a.end_date),
            ScheduledProcedureStepStartTime |-> "",
            Modality |-> IF StrTruthy(a.modality) THEN a.modality[1] ELSE ""] >>]

\* The patient-name filter written into the dataset of the caller.
DatasetQueryFiltered(a) ==
    IF a.dataset = NoneVal THEN Some(BuildQuery(a))
    ELSE Some([a.dataset[1] EXCEPT !.PatientName = QueryPatientName(a.patient_name)])

\* get_worklist_dataset: the dataset of the caller when there is one, the
\* built query otherwise.
DatasetQuery(a) ==
    IF a.dataset = NoneVal THEN Some(BuildQuery(a)) ELSE a.dataset

\* The dates dicom_tools.main puts in place of a missing start or end date:
\* the day of the run and the day a week later.
Today == "20250102"
NextWeek == "20250109"

\* if not args.start_date: args.start_date = today; the same for end_date.
MainDefaults(a) ==
    [a EXCEPT !.start_date = IF StrTruthy(@) THEN @ ELSE Some(Today),
              !.end_date = IF StrTruthy(@) THEN @ ELSE Some(NextWeek)]

\* The item of the sequence the inline builder of dicom_tools.main fills in:
\* the start date and the modality are set only when given.
MainSpsItem(a) ==
    (IF StrTruthy(a.start_date) /\ StrTruthy(a.end_date)
     THEN [ScheduledProcedureStepStartDate |->
              Fmt(a.start_date) \o "-" \o Fmt(a.end_date)]
     ELSE IF StrTruthy(a.start_date)
     THEN [ScheduledProcedureStepStartDate |-> a.start_date[1]]
     ELSE EmptyDataset)
    @@ (IF StrTruthy(a.modality) THEN [Modality |-> a.modality[1]] ELSE EmptyDataset)

\* The C-FIND dataset dicom_tools.main builds for get_worklist_dataset.
MainQuery(a) ==
    [QueryRetrieveLevel |-> "WORKLIST",
     PatientName |-> QueryPatientName(a.patient_name),
     PatientID |-> "",
     AccessionNumber |-> "",
     RequestedProcedureDescription |-> "",
     ScheduledProcedureStepSequence |-> << MainSpsItem(a) >>]

\* The JSON query of get_worklists_by_date_range.
RestQuery(start_date, end_date) ==
    [Level |-> "WorkList",
     Query |->
        [ScheduledProcedureStepSequence |->
            [Sequence |->
                << [ScheduledProcedureStepStartDate |->
                        Fmt(start_date) \o "-" \o Fmt(end_date)] >>],
         PatientName |-> "",
         PatientID |-> "",
         AccessionNumber |-> "",
         RequestedProcedureDescription |-> "",
         StudyInstanceUID |-> ""]]

\* The loop body putting each result in front of the earlier ones.
CollectResponsePrepend(rs, st, identifier) ==
    IF DatasetTruthy(st) /\ IdentifierTruthy(identifier)
    THEN <<identifier[1]>> \o rs
    ELSE rs

\* Body of the C-FIND loop: the new value of `responses`.
CollectResponse(rs, st, identifier) ==
    IF DatasetTruthy(st) /\ IdentifierTruthy(identifier)
    THEN Append(rs, identifier[1])
    ELSE rs

\* Any status taken for success.
StoreResultAnyStatus(st) == DatasetTruthy(st)

\* `result` of send_worklist_item from the C-STORE status.
StoreResult(st) ==
    IF DatasetTruthy(st) THEN st.Status = 0 ELSE FALSE

\* generate_uid(): a UID it has not returned before.
GenerateUid(g) == Uids \ {g[i] : i \in 1..Len(g)}

ModalityWorklistSOPClass == "1.2.840.10008.5.1.4.31"
ExplicitVRLittleEndian == "1.2.840.10008.1.2.1"

\* b"\0" * 128
PreambleLen == 128
Preamble == [i \in 1..PreambleLen |-> 0]

\* file_meta of send_worklist_item.
FileMeta(uid) ==
    [MediaStorageSOPClassUID |-> ModalityWorklistSOPClass,
     MediaStorageSOPInstanceUID |-> uid,
     TransferSyntaxUID |-> ExplicitVRLittleEndian]

\* An identifier the dataset already has is kept.
StoreInstanceUidKept(ds, file_meta) ==
    IF "SOPInstanceUID" \in DOMAIN ds THEN ds.SOPInstanceUID
    ELSE file_meta.MediaStorageSOPInstanceUID

\* file_dataset.SOPInstanceUID = file_meta.MediaStorageSOPInstanceUID
StoreInstanceUid(ds, file_meta) == file_meta.MediaStorageSOPInstanceUID

\* FileDataset(None, dataset, file_meta=file_meta, preamble=b"\0" * 128) with
\* SOPClassUID and SOPInstanceUID set. The FileDataset holds the elements of
\* `dataset` itself, not a copy of them.
FileDatasetOf(ds, file_meta) ==
    [preamble |-> Some(Preamble),
     file_meta |-> file_meta,
     elements |->
        [SOPClassUID |-> file_meta.MediaStorageSOPClassUID,
         SOPInstanceUID |-> StoreInstanceUid(ds, file_meta)] @@ ds]

\* A Dataset that is not a FileDataset: no preamble, no file meta.
PlainDataset(ds) ==
    [preamble |-> NoneVal, file_meta |-> EmptyDataset, elements |-> ds]

\* save_as: the preamble and the 'DICM' prefix when there is a preamble, the
\* file meta when it has elements, then the encoded elements.
EncodeFile(fd) ==
    (IF fd.preamble # NoneVal
     THEN <<[part |-> "preamble", value |-> fd.preamble[1]],
            [part |-> "prefix", value |-> "DICM"]>>
     ELSE <<>>)
    \o (IF DatasetTruthy(fd.file_meta)
        THEN <<[part |-> "file_meta", value |-> fd.file_meta]>>
        ELSE <<>>)
    \o <<[part |-> "dataset", value |-> fd.elements]>>

\* extract_value(content, pattern): the value after the label, '' when the
\* label is not in the text.
extract_value(content, label) ==
    IF label \in DOMAIN content THEN content[label] ELSE ""

\* The elements convert_request_to_dcm sets from the text.
RequestElements(content, spsId, procId, studyUid) ==
    [PatientName |-> extract_value(content, "PatientName"),
     PatientID |-> extract_value(content, "PatientID"),
     ScheduledProcedureStepSequence |->
        << [Modality |-> extract_value(content, "Modality"),
            ScheduledProcedureStepID |-> spsId] >>,
     RequestedProcedureID |-> procId,
     AccessionNumber |-> extract_value(content, "AccessionNumber"),
     StudyInstanceUID |-> studyUid]

\* The elements convert_response_to_dcm sets.
ResponseElements(spsId, procId, studyUid) ==
    [PatientName |-> "Patient_Name",
     PatientID |-> "488390",
     ScheduledProcedureStepSequence |->
        << [Modality |-> "US",
            ScheduledProcedureStepID |-> spsId] >>,
     RequestedProcedureID |-> procId,
     AccessionNumber |-> "5880936",
     StudyInstanceUID |-> studyUid]

\* ds = FileDataset(output_path, {}, file_meta=file_meta, preamble=b"\0" * 128)
\* with the elements set on it.
ConvertedFileDataset(elements, file_meta) ==
    [preamble |-> Some(Preamble), file_meta |-> file_meta, elements |-> elements]

\* bytes.decode('utf-8', 'ignore') as a sequence of code points, for bytes
\* of one-byte and two-byte characters: a byte that is not part of a
\* character is left out.
RECURSIVE DecodeIgnore(_)
DecodeIgnore(b) ==
    IF b = <<>> THEN <<>>
    ELSE IF b[1] < 128 THEN <<b[1]>> \o DecodeIgnore(Tail(b))
    ELSE IF b[1] \in 194..223 /\ Len(b) >= 2 /\ b[2] \in 128..191
    THEN <<(b[1] - 192) * 64 + (b[2] - 128)>> \o DecodeIgnore(Tail(Tail(b)))
    ELSE DecodeIgnore(Tail(b))

\* f"[Binary data with length {len(elem.value)} bytes]"
Placeholder(b) == [kind |-> "str", text |-> "[Binary data with length N bytes]", N |-> Len(b)]

\* The str a decoded byte string becomes.
Decoded(b) == [kind |-> "str", text |-> "decoded", chars |-> DecodeIgnore(b)]

\* Every binary element decoded, Pixel Data too.
ProjectBytesDecodeAll(name, b) == Decoded(b)

\* The branch for a bytes value: the placeholder for Pixel Data; for any
\* other element decode('utf-8', 'ignore'), which does not raise, so the
\* except clause with the placeholder is never entered.
ProjectBytes(name, b) ==
    IF name = "Pixel Data" THEN Placeholder(b) ELSE Decoded(b)

\* dataset_to_dict(ds): the dict of the projected elements.
RECURSIVE dataset_to_dict(_)
ProjectElement(name, elem) ==
    IF elem.VR = "SQ"
    THEN IF elem.value # PyNone
         THEN [kind |-> "list",
               items |-> [i \in 1..Len(elem.value.items) |->
                             dataset_to_dict(elem.value.items[i])]]
         ELSE PyNone
    ELSE IF elem.value # PyNone
         THEN IF elem.value.kind = "bytes"
              THEN ProjectBytes(name, elem.value.bytes)
              ELSE elem.value
         ELSE PyNone

dataset_to_dict(ds) == [name \in DOMAIN ds |-> ProjectElement(name, ds[name])]

\* json.dumps(dicom_dict, indent=2, cls=DicomJSONEncoder): None is written as
\* null, a str as a string, a list as an array, a dict as an object.
RECURSIVE JsonObject(_)
JsonValue(v) ==
    CASE v.kind = "None" -> [json |-> "null"]
      [] v.kind = "list" ->
            [json |-> "array",
             items |-> [i \in 1..Len(v.items) |-> JsonObject(v.items[i])]]
      [] OTHER -> [json |-> "string", of |-> v]

JsonObject(d) == [k \in DOMAIN d |-> JsonValue(d[k])]

\* getattr(item, name, default)
GetAttr(ds, name, default) == IF name \in DOMAIN ds THEN ds[name] ELSE default

\* hasattr(item, 'ScheduledProcedureStepSequence') and item.ScheduledProcedureStepSequence
HasSps(item) ==
    /\ "ScheduledProcedureStepSequence" \in DOMAIN item
    /\ item.ScheduledProcedureStepSequence # <<>>

\* json_item of display_worklist: every value is str(getattr(..., 'N/A')).
DisplayJsonItem(item) ==
    [PatientName |-> PyValue(GetAttr(item, "PatientName", "N/A")),
     PatientID |-> PyValue(GetAttr(item, "PatientID", "N/A")),
     AccessionNumber |-> PyValue(GetAttr(item, "AccessionNumber", "N/A")),
     RequestedProcedureDescription |->
        PyValue(GetAttr(item, "RequestedProcedureDescription", "N/A")),
     StudyInstanceUID |-> PyValue(GetAttr(item, "StudyInstanceUID", "N/A"))]
    @@ (IF HasSps(item)
        THEN LET sps == item.ScheduledProcedureStepSequence[1]
             IN  [ScheduledDate |->
                     PyValue(GetAttr(sps, "ScheduledProcedureStepStartDate", "N/A")),
                  ScheduledTime |->
                     PyValue(GetAttr(sps, "ScheduledProcedureStepStartTime", "N/A")),
                  Modality |-> PyValue(GetAttr(sps, "Modality", "N/A")),
                  StationName |-> PyValue(GetAttr(sps, "ScheduledStationName", "N/A")),
                  StationAETitle |->
                     PyValue(GetAttr(sps, "ScheduledStationAETitle", "N/A"))]
        ELSE EmptyDataset)

\* The lines display_worklist prints for one item in text format.
DisplayTextItem(item) ==
    <<[label |-> "Patient", value |-> GetAttr(item, "PatientName", "N/A")],
      [label |-> "Patient ID", value |-> GetAttr(item, "PatientID", "N/A")],
      [label |-> "Accession", value |-> GetAttr(item, "AccessionNumber", "N/A")]>>
    \o (IF HasSps(item)
        THEN LET sps == item.ScheduledProcedureStepSequence[1]
             IN  <<[label |-> "Date",
                    value |-> GetAttr(sps, "ScheduledProcedureStepStartDate", "N/A")],
                   [label |-> "Time",
                    value |-> GetAttr(sps, "ScheduledProcedureStepStartTime", "N/A")],
                   [label |-> "Modality", value |-> GetAttr(sps, "Modality", "N/A")],
                   [label |-> "Station",
                    value |-> GetAttr(sps, "ScheduledStationName", "N/A")]>>
        ELSE <<>>)
    \o <<[label |-> "Description",
          value |-> GetAttr(item, "RequestedProcedureDescription", "N/A")]>>

\* An attribute that is set only when its value is not empty.
Optional(name, v) == IF v # "" THEN (name :> v) ELSE EmptyDataset

\* The Dataset create_worklist_item returns; u holds the three generated
\* identifiers in the order they are asked for. No argument is checked.
CreateWorklistItem(a, u) ==
    [SpecificCharacterSet |-> "ISO_IR 100",
     PatientName |-> a.patient_name,
     PatientID |-> a.patient_id,
     ScheduledProcedureStepSequence |->
        << [ScheduledStationAETitle |-> a.scheduled_station_ae_title,
            ScheduledProcedureStepStartDate |-> a.scheduled_procedure_step_start_date,
            ScheduledProcedureStepStartTime |-> a.scheduled_procedure_step_start_time,
            Modality |-> a.modality,
            ScheduledPerformingPhysicianName |-> "",
            ScheduledProcedureStepDescription |-> a.requested_procedure_description,
            ScheduledProcedureStepID |-> u[1],
            ScheduledStationName |-> a.scheduled_station_name] >>,
     RequestedProcedureID |-> u[2],
     RequestedProcedureDescription |-> a.requested_procedure_description,
     AccessionNumber |-> a.accession_number,
     StudyInstanceUID |-> u[3]]
    @@ Optional("PatientBirthDate", a.patient_birth_date)
    @@ Optional("PatientSex", a.patient_sex)
    @@ Optional("ReferringPhysicianName", a.referring_physician_name)
    @@ Optional("MedicalAlerts", a.medical_alerts)
    @@ Optional("ContrastAllergies", a.contrast_allergies)

\* item.get(key, default)
DictGet(item, key, default) == IF key \in DOMAIN item THEN item[key] ELSE default

\* The arguments batch_create_command passes for an entry of the file.
BatchArgs(item) ==
    [CreateDefaults EXCEPT
        !.patient_name = DictGet(item, "patient_name", ""),
        !.patient_id = DictGet(item, "patient_id", ""),
        !.patient_sex = DictGet(item, "sex", "")]

\* `simplified` of get_worklists_by_date_range.
Simplified(id, instance_data) ==
    [ID |-> id,
     PatientName |-> DictGet(instance_data, "PatientName", ""),
     PatientID |-> DictGet(instance_data, "PatientID", ""),
     AccessionNumber |-> DictGet(instance_data, "AccessionNumber", ""),
     ScheduledDate |-> DictGet(instance_data, "ScheduledProcedureStepStartDate", ""),
     ScheduledTime |-> DictGet(instance_data, "ScheduledProcedureStepStartTime", ""),
     Modality |-> DictGet(instance_data, "Modality", ""),
     Description |-> DictGet(instance_data, "RequestedProcedureDescription", "")]

\* `worklists` after an instance request that did not answer 200: nothing
\* is appended.
FetchFailed(ws, id) == ws

\* A Python list as a returned value, told apart from a dict by its type.
List(ws) == [list |-> ws]

\* {"error": response.text, "status_code": response.status_code}
ErrorStatus(code) == [error |-> "response text", status_code |-> code]

\* {"error": str(e)}
ErrorException == [error |-> "exception"]

\* How one branch of dicom_tools.main ended: "ok", "failed" when the
\* function it called reported a failure in the value it returned, "raise"
\* when it raised.
Step(name, kind) == [step |-> name, kind |-> kind]

\* What each function called by dicom_tools.main can end with.
\* convert_mwl_samples returns (None, None) when the sample files are
\* missing; c_echo returns the status code, zero or not, and raises for
\* an association failure; get_worklist_dataset returns the responses,
\* also after a failure status, and raises for an association failure;
\* load_sample_worklists returns [] for a file it cannot load;
\* send_worklist_item returns True or False; dicom_to_json raises.
StepKinds(name) ==
    IF name = "dicom_to_json" THEN {"ok", "raise"} ELSE {"ok", "failed", "raise"}

\* The branches main leaves with `return 1` when they raise; the call of
\* convert_mwl_samples is not inside a try block.
CaughtSteps == {"echo", "get_worklist", "sample_worklist", "create_worklist", "dicom_to_json"}

\* if args.get_worklist or (not args.convert and not args.echo and not
\* args.sample_worklist)
RetrievalRequested(a) ==
    a.get_worklist \/ (~a.convert /\ ~a.echo /\ ~a.sample_worklist)

\* Whether the branch of the step is entered.
StepRequested(name, a) ==
    IF name = "get_worklist" THEN RetrievalRequested(a) ELSE a[name]

\* The order of the branches in main.
MainSteps == <<"convert", "echo", "get_worklist", "sample_worklist",
               "create_worklist", "dicom_to_json">>

\* What upload_worklist_to_orthanc returns.
UploadResults ==
    {[ID |-> "instance-1"],
     [error |-> "Bad Request", status_code |-> 400],
     [error |-> "connection refused"]}

\* What the body of the try block of one batch entry ends with: the dict
\* upload_worklist_to_orthanc returned, or an exception of
\* create_worklist_item or of upload_worklist_to_orthanc.
ItemOutcomes == {Return(r) : r \in UploadResults} \cup {Raise(LibraryError)}

\* The outcome of one command or batch entry is a success: no exception
\* and no "error" key in the returned dict.
Succeeded(o) == o.kind = "return" /\ "error" \notin DOMAIN o.value

\* A count that does not look at the outcome.
CountEvery(count, o) == count + 1

\* success_count after one batch entry.
CountSuccess(count, o) == IF Succeeded(o) THEN count + 1 ELSE count

\* The number of successes among the outcomes.
RECURSIVE Successes(_)
Successes(os) ==
    IF os = <<>> THEN 0
    ELSE Successes(Tail(os)) + (IF Succeeded(Head(os)) THEN 1 ELSE 0)

\* What a command function returns for the outcome of its one operation.
CommandTruth(o) == o.kind = "return" /\ "error" \notin DOMAIN o.value

\* return 0 if success else 1
ExitStatus(success) == IF success THEN 0 ELSE 1

\* str(PatientName).replace('^', '_')
ReplaceCaret(name) == [i \in 1..Len(name) |-> IF name[i] = "^" THEN "_" ELSE name[i]]

\* os.path.join(output_dir, f"worklist_{patient_name}_{accession}.dcm")
StagingPath(ds) == <<"worklist", ReplaceCaret(ds.PatientName), ds.AccessionNumber>>

\* file_dataset.save_as(output_path): a later file replaces an earlier one of
\* the same path.
SaveAs(fs, path, uid) == {f \in fs : f[1] # path} \cup {<<path, uid>>}

-----------------------------------------------------------------------------
(* The state after construction, and the calls *)

Init ==
    /\ pc = "idle"
    /\ op = "none"
    /\ args = NoArgs
    /\ assoc = "none"
    /\ calledAE = ""
    /\ events = <<>>
    /\ status = EmptyDataset
    /\ query = NoneVal
    /\ received = <<>>
    /\ responses = <<>>
    /\ result = NoResult
    /\ report = NoReport
    /\ exitCode = -1
    /\ sopUid = ""
    /\ files = {}
    /\ generated = <<>>
    /\ fileDataset = NoneVal
    /\ written = NoneVal
    /\ sent = <<>>
    /\ stdout = <<>>
    /\ results = <<>>
    /\ todo = <<>>
    /\ handled = <<>>
    /\ worklists = <<>>
    /\ success_count = 0
    /\ outcomes = <<>>

Endpoint(a, ip, port, ae) == [a EXCEPT !.ip = ip, !.port = port, !.remote_ae = ae]

Filters(a, sd, ed, pn, md) ==
    [a EXCEPT !.start_date = sd, !.end_date = ed, !.patient_name = pn, !.modality = md]

\* dicom_tools.main calls c_echo.
Call_c_echo ==
    /\ pc = "idle"
    /\ \E ip \in Hosts, port \in Ports, ae \in AETitles \cup {""} :
          args' = Endpoint(NoArgs, ip, port, ae)
    /\ op' = "c_echo"
    /\ pc' = "associate"
    /\ UNCHANGED <<assoc, calledAE, events, status, query, received, responses,
                   result, report, exitCode, sopUid, files>>
    /\ UNCHANGED xvars
    /\ UNCHANGED cvars

Call_get_worklist ==
    /\ pc = "idle"
    /\ \E ip \in Hosts, port \in Ports, ae \in AETitles,
          sd \in StartDates, ed \in EndDates, pn \in PatientNames, md \in Modalities :
          args' = Filters(Endpoint(NoArgs, ip, port, ae), sd, ed, pn, md)
    /\ op' = "get_worklist"
    /\ pc' = "associate"
    /\ UNCHANGED <<assoc, calledAE, events, status, query, received, responses,
                   result, report, exitCode, sopUid, files>>
    /\ UNCHANGED xvars
    /\ UNCHANGED cvars

Call_get_worklist_dataset ==
    /\ pc = "idle"
    /\ \E ip \in Hosts, port \in Ports, ae \in AETitles,
          sd \in StartDates, ed \in EndDates, pn \in PatientNames, md \in Modalities,
          ds \in Datasets :
          args' = [Filters(Endpoint(NoArgs, ip, port, ae), sd, ed, pn, md)
                      EXCEPT !.dataset = ds]
    /\ op' = "get_worklist_dataset"
    /\ pc' = "associate"
    /\ UNCHANGED <<assoc, calledAE, events, status, query, received, responses,
                   result, report, exitCode, sopUid, files>>
    /\ UNCHANGED xvars
    /\ UNCHANGED cvars

Call_send_worklist_item ==
    /\ pc = "idle"
    /\ \E ip \in Hosts, port \in Ports, ae \in AETitles, ds \in Items :
          args' = [Endpoint(NoArgs, ip, port, ae) EXCEPT !.dataset = Some(ds)]
    /\ op' = "send_worklist_item"
    /\ pc' = "prepare"
    /\ UNCHANGED <<assoc, calledAE, events, status, query, received, responses,
                   result, report, exitCode, sopUid, files>>
    /\ UNCHANGED xvars
    /\ UNCHANGED cvars

-----------------------------------------------------------------------------
(* Steps shared by the four functions *)

\* assoc = ae.associate(ip_address, port, ae_title=remote_ae); c_echo leaves
\* ae_title out when remote_ae is empty.
Associate ==
    /\ pc = "associate"
    /\ \E a \in AssociateOutcomes :
          /\ assoc' = a
          /\ events' = events \o <<"associate", AssociateEvent(a)>>
    /\ calledAE' = IF op = "c_echo" THEN EchoCalledAE(args.remote_ae) ELSE args.remote_ae
    /\ pc' = "check"
    /\ UNCHANGED <<op, args, status, query, received, responses, result, report,
                   exitCode, sopUid, files>>
    /\ UNCHANGED xvars
    /\ UNCHANGED cvars

\* A library call that raises while the request is in flight: the association
\* is as it was, or the peer has aborted it in the meantime.
RaiseOutcomes(a) == {a, "aborted"}

RaiseEvent(before, after) ==
    IF before # after THEN <<"abort", "raise">> ELSE <<"raise">>

-----------------------------------------------------------------------------
(* c_echo *)

\* The else branch associating again instead of raising.
c_echo_else_retry(a) == [pc |-> "associate", result |-> NoResult]

\* The else branch of c_echo: where it goes and how it ends.
c_echo_else(a) == [pc |-> "done", result |-> Raise(AssociationFailed(a))]

c_echo_not_established ==
    /\ pc = "check" /\ op = "c_echo"
    /\ ~IsEstablished(assoc)
    /\ pc' = c_echo_else(args).pc
    /\ result' = c_echo_else(args).result
    /\ UNCHANGED <<op, args, assoc, calledAE, events, status, query, received,
                   responses, report, exitCode, sopUid, files>>
    /\ UNCHANGED xvars
    /\ UNCHANGED cvars

\* status = assoc.send_c_echo(). The call raises only when the association
\* is no longer established (the one requested context, Verification, is
\* accepted on every established association), that is after an abort.
c_echo_send ==
    /\ pc = "check" /\ op = "c_echo"
    /\ IsEstablished(assoc)
    /\ \/ \E s \in EchoStatuses :
             /\ status' = StatusOf(s)
             /\ events' = events \o <<"request", "response">>
             /\ pc' = "status"
             /\ UNCHANGED <<assoc, result>>
       \/ /\ status' = EmptyDataset
          /\ assoc' = "aborted"
          /\ events' = events \o <<"request", "abort">>
          /\ pc' = "status"
          /\ UNCHANGED result
       \/ /\ assoc' = "aborted"
          /\ events' = events \o <<"request">> \o RaiseEvent(assoc, "aborted")
          /\ result' = Raise(LibraryError)
          /\ pc' = "done"
          /\ UNCHANGED status
    /\ UNCHANGED <<op, args, calledAE, query, received, responses, report,
                   exitCode, sopUid, files>>
    /\ UNCHANGED xvars
    /\ UNCHANGED cvars

\* c_echo returning without the release.
c_echo_no_release(a) == {a}

\* assoc.release() of c_echo
c_echo_release(a) == ReleaseOutcomes(a)

\* if status: ... else: raise; assoc.release(); return status.Status
c_echo_status ==
    /\ pc = "status" /\ op = "c_echo"
    /\ IF DatasetTruthy(status)
       THEN \E a \in c_echo_release(assoc) :
               /\ assoc' = a
               /\ events' = events \o ReleaseEvent(assoc, a)
               /\ result' = Return(EchoReturn(status))
       ELSE /\ result' = Raise(CEchoError(status))
            /\ UNCHANGED <<assoc, events>>
    /\ pc' = "done"
    /\ UNCHANGED <<op, args, calledAE, status, query, received, responses,
                   report, exitCode, sopUid, files>>
    /\ UNCHANGED xvars
    /\ UNCHANGED cvars

\* The --echo branch of dicom_tools.main: what it logs about the status.
EchoReport(r) ==
    IF r.kind = "raise"
    THEN [level |-> "error", msg |-> "Error during C-ECHO", status |-> -1]
    ELSE IF r.value = 0
    THEN [level |-> "info", msg |-> "C-ECHO successful! Server is accessible.",
          status |-> r.value]
    ELSE [level |-> "error", msg |-> "C-ECHO failed with status", status |-> r.value]

main_echo ==
    /\ pc = "done" /\ op = "c_echo"
    /\ report' = EchoReport(result)
    /\ exitCode' = IF result.kind = "raise" THEN 1 ELSE exitCode
    /\ pc' = "reported"
    /\ UNCHANGED <<op, args, assoc, calledAE, events, status, query, received,
                   responses, result, sopUid, files>>
    /\ UNCHANGED xvars
    /\ UNCHANGED cvars

-----------------------------------------------------------------------------
(* get_worklist and get_worklist_dataset *)

IsFind == op \in {"get_worklist", "get_worklist_dataset"}

find_not_established ==
    /\ pc = "check" /\ IsFind
    /\ ~IsEstablished(assoc)
    /\ result' = Raise(AssociationFailed(args))
    /\ pc' = "done"
    /\ UNCHANGED <<op, args, assoc, calledAE, events, status, query, received,
                   responses, report, exitCode, sopUid, files>>
    /\ UNCHANGED xvars
    /\ UNCHANGED cvars

get_worklist_build ==
    /\ pc = "check" /\ op = "get_worklist"
    /\ IsEstablished(assoc)
    /\ query' = Some(BuildQuery(args))
    /\ pc' = "send"
    /\ UNCHANGED <<op, args, assoc, calledAE, events, status, received,
                   responses, result, report, exitCode, sopUid, files>>
    /\ UNCHANGED xvars
    /\ UNCHANGED cvars

\* if dataset is None: build the default query; else use the caller's.
get_worklist_dataset_build ==
    /\ pc = "check" /\ op = "get_worklist_dataset"
    /\ IsEstablished(assoc)
    /\ query' = DatasetQuery(args)
    /\ pc' = "send"
    /\ UNCHANGED <<op, args, assoc, calledAE, events, status, received,
                   responses, result, report, exitCode, sopUid, files>>
    /\ UNCHANGED xvars
    /\ UNCHANGED cvars

\* responses = []; assoc.send_c_find(ds, ModalityWorklistInformationFind)
find_send ==
    /\ pc = "send" /\ IsFind
    /\ responses' = <<>>
    /\ \/ /\ events' = events \o <<"request">>
          /\ pc' = "recv"
          /\ UNCHANGED <<assoc, result>>
       \/ \E a \in RaiseOutcomes(assoc) :
             /\ assoc' = a
             /\ events' = events \o <<"request">> \o RaiseEvent(assoc, a)
             /\ result' = Raise(LibraryError)
             /\ pc' = "done"
    /\ UNCHANGED <<op, args, calledAE, status, query, received, report,
                   exitCode, sopUid, files>>
    /\ UNCHANGED xvars
    /\ UNCHANGED cvars

\* One turn of `for (status, dataset) in ...`: the generator yields a pending
\* response, its last response, an empty status, or raises.
find_recv ==
    /\ pc = "recv" /\ IsFind
    /\ \/ /\ Len(received) < MaxResponses
          /\ \E s \in PendingStatuses, id \in Identifiers :
                /\ status' = StatusOf(s)
                /\ received' = Append(received, [status |-> StatusOf(s), identifier |-> id])
                /\ responses' = CollectResponse(responses, StatusOf(s), id)
          /\ events' = events \o <<"response">>
          /\ pc' = "recv"
          /\ UNCHANGED <<assoc, result>>
       \/ /\ \E s \in FinalStatuses :
                /\ status' = StatusOf(s)
                /\ received' = Append(received, [status |-> StatusOf(s), identifier |-> NoneVal])
                /\ responses' = CollectResponse(responses, StatusOf(s), NoneVal)
          /\ events' = events \o <<"response">>
          /\ pc' = "release"
          /\ UNCHANGED <<assoc, result>>
       \/ /\ status' = EmptyDataset
          /\ received' = Append(received, [status |-> EmptyDataset, identifier |-> NoneVal])
          /\ responses' = CollectResponse(responses, EmptyDataset, NoneVal)
          /\ assoc' = "aborted"
          /\ events' = events \o <<"abort">>
          /\ pc' = "release"
          /\ UNCHANGED result
       \/ \E a \in RaiseOutcomes(assoc) :
             /\ assoc' = a
             /\ events' = events \o RaiseEvent(assoc, a)
             /\ result' = Raise(LibraryError)
             /\ pc' = "done"
             /\ UNCHANGED <<status, received, responses>>
    /\ UNCHANGED <<op, args, calledAE, query, report, exitCode, sopUid, files>>
    /\ UNCHANGED xvars
    /\ UNCHANGED cvars

\* assoc.release(); return responses
find_release ==
    /\ pc = "release" /\ IsFind
    /\ \E a \in ReleaseOutcomes(assoc) :
          /\ assoc' = a
          /\ events' = events \o ReleaseEvent(assoc, a)
    /\ result' = Return(responses)
    /\ pc' = "done"
    /\ UNCHANGED <<op, args, calledAE, status, query, received, responses,
                   report, exitCode, sopUid, files>>
    /\ UNCHANGED xvars
    /\ UNCHANGED cvars

-----------------------------------------------------------------------------
(* send_worklist_item *)

\* File meta with a generated SOP instance UID, then save_as(output_path);
\* an exception here is caught by the function's except clause.
store_prepare ==
    /\ pc = "prepare" /\ op = "send_worklist_item"
    /\ \E uid \in GenerateUid(generated) :
          LET fd == FileDatasetOf(args.dataset[1], FileMeta(uid))
          IN  /\ sopUid' = uid
              /\ generated' = Append(generated, uid)
              /\ fileDataset' = Some(fd)
              /\ args' = [args EXCEPT !.dataset = Some(fd.elements)]
              /\ \/ /\ files' = SaveAs(files, StagingPath(args.dataset[1]), uid)
                    /\ written' = Some(EncodeFile(fd))
                    /\ pc' = "associate"
                    /\ UNCHANGED result
                 \/ /\ result' = Return(FALSE)
                    /\ pc' = "done"
                    /\ UNCHANGED <<files, written>>
    /\ UNCHANGED <<op, assoc, calledAE, events, status, query, received,
                   responses, report, exitCode, sent, stdout>>
    /\ UNCHANGED cvars

\* What send_worklist_item hands back when the association is not established.
store_else == Return(FALSE)

store_not_established ==
    /\ pc = "check" /\ op = "send_worklist_item"
    /\ ~IsEstablished(assoc)
    /\ result' = store_else
    /\ pc' = "done"
    /\ UNCHANGED <<op, args, assoc, calledAE, events, status, query, received,
                   responses, report, exitCode, sopUid, files>>
    /\ UNCHANGED xvars
    /\ UNCHANGED cvars

\* status = assoc.send_c_store(file_dataset); an exception is caught by the
\* except clause, which returns False.
store_send ==
    /\ pc = "check" /\ op = "send_worklist_item"
    /\ IsEstablished(assoc)
    /\ \/ \E s \in FinalStatuses :
             /\ status' = StatusOf(s)
             /\ events' = events \o <<"request", "response">>
             /\ pc' = "status"
             /\ UNCHANGED <<assoc, result>>
       \/ /\ status' = EmptyDataset
          /\ assoc' = "aborted"
          /\ events' = events \o <<"request", "abort">>
          /\ pc' = "status"
          /\ UNCHANGED result
       \/ \E a \in RaiseOutcomes(assoc) :
             /\ assoc' = a
             /\ events' = events \o <<"request">> \o RaiseEvent(assoc, a)
             /\ result' = Return(FALSE)
             /\ pc' = "done"
             /\ UNCHANGED status
    /\ UNCHANGED <<op, args, calledAE, query, received, responses, report,
                   exitCode, sopUid, files>>
    /\ sent' = Append(sent, fileDataset[1])
    /\ UNCHANGED <<generated, fileDataset, written, stdout>>
    /\ UNCHANGED cvars

\* result from the status; assoc.release(); return result
store_status ==
    /\ pc = "status" /\ op = "send_worklist_item"
    /\ \E a \in ReleaseOutcomes(assoc) :
          /\ assoc' = a
          /\ events' = events \o ReleaseEvent(assoc, a)
    /\ result' = Return(StoreResult(status))
    /\ pc' = "done"
    /\ UNCHANGED <<op, args, calledAE, status, query, received, responses,
                   report, exitCode, sopUid, files>>
    /\ UNCHANGED xvars
    /\ UNCHANGED cvars

\* The caller sends another item, or the dataset of the call before once
\* more, as long as generate_uid has identifiers left.
Call_send_worklist_item_again ==
    /\ pc = "done" /\ op = "send_worklist_item"
    /\ Len(generated) < MaxCalls
    /\ GenerateUid(generated) # {}
    /\ \E ip \in Hosts, port \in Ports, ae \in AETitles,
          ds \in Items \cup {args.dataset[1]} :
          args' = [Endpoint(NoArgs, ip, port, ae) EXCEPT !.dataset = Some(ds)]
    /\ pc' = "prepare"
    /\ assoc' = "none"
    /\ calledAE' = ""
    /\ events' = <<>>
    /\ status' = EmptyDataset
    /\ result' = NoResult
    /\ fileDataset' = NoneVal
    /\ UNCHANGED <<op, query, received, responses, report, exitCode, sopUid,
                   files, generated, written, sent, stdout>>
    /\ UNCHANGED cvars

-----------------------------------------------------------------------------
(* mwl_converter: the sample files written as DICOM files *)

\* Four fresh identifiers, in the order the converters ask for them.
FourUids(g) ==
    {u \in [1..4 -> GenerateUid(g)] : \A i, j \in 1..4 : i # j => u[i] # u[j]}

\* What both converters do with the elements they have set: save_as.
convert_save(elements, u, path) ==
    LET ds == ConvertedFileDataset(elements, FileMeta(u[1]))
    IN  /\ generated' = generated \o u
        /\ fileDataset' = Some(ds)
        /\ written' = Some(EncodeFile(ds))
        /\ files' = SaveAs(files, path, u[1])
        /\ result' = Return(NoneVal)
        /\ pc' = "done"

convert_request_to_dcm ==
    /\ pc = "idle"
    /\ op' = "convert_request_to_dcm"
    /\ \E content \in Contents, u \in FourUids(generated) :
          /\ args' = [content |-> content, output_path |-> <<"data/mwl-sample/dcm", "mwl_request.dcm">>]
          /\ convert_save(RequestElements(content, u[2], u[3], u[4]), u,
                          <<"data/mwl-sample/dcm", "mwl_request.dcm">>)
    /\ UNCHANGED <<assoc, calledAE, events, status, query, received, responses,
                   report, exitCode, sopUid, sent, stdout>>
    /\ UNCHANGED cvars

convert_response_to_dcm ==
    /\ pc = "idle"
    /\ op' = "convert_response_to_dcm"
    /\ \E content \in Contents, u \in FourUids(generated) :
          /\ args' = [content |-> content, output_path |-> <<"data/mwl-sample/dcm", "mwl_response.dcm">>]
          /\ convert_save(ResponseElements(u[2], u[3], u[4]), u,
                          <<"data/mwl-sample/dcm", "mwl_response.dcm">>)
    /\ UNCHANGED <<assoc, calledAE, events, status, query, received, responses,
                   report, exitCode, sopUid, sent, stdout>>
    /\ UNCHANGED cvars

-----------------------------------------------------------------------------
(* upload_worklist_to_orthanc *)

TempPath == <<"tmp", "upload.dcm">>

Call_upload_worklist_to_orthanc ==
    /\ pc = "idle"
    /\ op' = "upload_worklist_to_orthanc"
    /\ \E ds \in CreatedItems : args' = [worklist_dataset |-> ds]
    /\ pc' = "upload_save"
    /\ UNCHANGED <<assoc, calledAE, events, status, query, received, responses,
                   result, report, exitCode, sopUid, files>>
    /\ UNCHANGED xvars
    /\ UNCHANGED cvars

\* The temporary file is created, worklist_dataset.save_as(temp_path) writes
\* it, its bytes are read and it is unlinked; when save_as raises, the
\* exception leaves the function and the empty temporary file stays.
upload_save ==
    /\ pc = "upload_save" /\ op = "upload_worklist_to_orthanc"
    /\ \/ /\ written' = Some(EncodeFile(PlainDataset(args.worklist_dataset)))
          /\ pc' = "upload_post"
          /\ UNCHANGED <<result, files>>
       \/ /\ result' = Raise(LibraryError)
          /\ files' = files \cup {<<TempPath, "">>}
          /\ pc' = "done"
          /\ UNCHANGED written
    /\ UNCHANGED <<op, args, assoc, calledAE, events, status, query, received,
                   responses, report, exitCode, sopUid, generated, fileDataset,
                   sent, stdout>>
    /\ UNCHANGED cvars

\* requests.post(upload_url, data=binary_data, ...): the JSON of a 200
\* answer, or a dict with "error".
upload_post ==
    /\ pc = "upload_post" /\ op = "upload_worklist_to_orthanc"
    /\ \/ result' = Return([ID |-> "instance-1"])
       \/ result' = Return([error |-> "Bad Request", status_code |-> 400])
       \/ result' = Return([error |-> "connection refused"])
    /\ pc' = "done"
    /\ UNCHANGED <<op, args, assoc, calledAE, events, status, query, received,
                   responses, report, exitCode, sopUid, files>>
    /\ UNCHANGED xvars
    /\ UNCHANGED cvars

-----------------------------------------------------------------------------
(* dicom_to_json *)

\* The file at file_path holds a dataset, or cannot be read.
Call_dicom_to_json ==
    /\ pc = "idle"
    /\ op' = "dicom_to_json"
    /\ \E f \in {NoneVal} \cup {Some(ds) : ds \in DatasetsOfDepth(MaxDepth)} :
          args' = [file_path |-> "item.dcm", file |-> f]
    /\ pc' = "convert"
    /\ UNCHANGED <<assoc, calledAE, events, status, query, received, responses,
                   result, report, exitCode, sopUid, files>>
    /\ UNCHANGED xvars
    /\ UNCHANGED cvars

\* dcmread, dataset_to_dict, json.dumps, print, return; an exception of
\* dcmread is logged and raised again.
dicom_to_json ==
    /\ pc = "convert" /\ op = "dicom_to_json"
    /\ IF args.file = NoneVal
       THEN /\ result' = Raise(LibraryError)
            /\ UNCHANGED stdout
       ELSE /\ result' = Return(dataset_to_dict(args.file[1]))
            /\ stdout' = Append(stdout, JsonObject(dataset_to_dict(args.file[1])))
    /\ pc' = "done"
    /\ UNCHANGED <<op, args, assoc, calledAE, events, status, query, received,
                   responses, report, exitCode, sopUid, files, generated,
                   fileDataset, written, sent>>
    /\ UNCHANGED cvars

-----------------------------------------------------------------------------
(* display_worklist *)

Call_display_worklist ==
    /\ pc = "idle"
    /\ op' = "display_worklist"
    /\ \E items \in WorklistLists, fmt \in {"text", "json"} :
          args' = [worklist_items |-> items, output_format |-> fmt]
    /\ pc' = "display"
    /\ UNCHANGED <<assoc, calledAE, events, status, query, received, responses,
                   result, report, exitCode, sopUid, files>>
    /\ UNCHANGED xvars
    /\ UNCHANGED cvars

\* Nothing but a notice for an empty list; the JSON array of the items, or
\* their lines of text.
display_worklist ==
    /\ pc = "display" /\ op = "display_worklist"
    /\ stdout' =
          IF args.worklist_items = <<>>
          THEN Append(stdout, [notice |-> "No worklist items found."])
          ELSE IF args.output_format = "json"
          THEN Append(stdout,
                  [json |-> "array",
                   items |-> [i \in 1..Len(args.worklist_items) |->
                                 JsonObject(DisplayJsonItem(args.worklist_items[i]))]])
          ELSE Append(stdout,
                  [text |-> [i \in 1..Len(args.worklist_items) |->
                                DisplayTextItem(args.worklist_items[i])]])
    /\ result' = Return(NoneVal)
    /\ pc' = "done"
    /\ UNCHANGED <<op, args, assoc, calledAE, events, status, query, received,
                   responses, report, exitCode, sopUid, files, generated,
                   fileDataset, written, sent>>
    /\ UNCHANGED cvars

-----------------------------------------------------------------------------
(* create_worklist_item, called directly and by batch_create_command *)

ThreeUids(g) ==
    {u \in [1..3 -> GenerateUid(g)] : \A i, j \in 1..3 : i # j => u[i] # u[j]}

Call_create_worklist_item ==
    /\ pc = "idle"
    /\ op' = "create_worklist_item"
    /\ \E n \in {"", "DOE^JOHN"}, i \in {"", "488390"}, x \in {"", "M"} :
          args' = [CreateDefaults EXCEPT !.patient_name = n, !.patient_id = i,
                                         !.patient_sex = x]
    /\ pc' = "create"
    /\ UNCHANGED <<assoc, calledAE, events, status, query, received, responses,
                   result, report, exitCode, sopUid, files>>
    /\ UNCHANGED xvars
    /\ UNCHANGED cvars

\* One turn of the loop of batch_create_command: the entry is turned into
\* the arguments of create_worklist_item.
batch_create_command ==
    /\ pc = "idle"
    /\ op' = "batch_create_command"
    /\ \E item \in BatchItems : args' = BatchArgs(item)
    /\ pc' = "create"
    /\ UNCHANGED <<assoc, calledAE, events, status, query, received, responses,
                   result, report, exitCode, sopUid, files>>
    /\ UNCHANGED xvars
    /\ UNCHANGED cvars

create_worklist_item ==
    /\ pc = "create" /\ op \in {"create_worklist_item", "batch_create_command"}
    /\ \E u \in ThreeUids(generated) :
          /\ generated' = generated \o u
          /\ result' = Return(CreateWorklistItem(args, u))
    /\ pc' = "done"
    /\ UNCHANGED <<op, args, assoc, calledAE, events, status, query, received,
                   responses, report, exitCode, sopUid, files, fileDataset,
                   written, sent, stdout>>
    /\ UNCHANGED cvars

-----------------------------------------------------------------------------
(* get_worklists_by_date_range: the query it posts *)

rest_build ==
    /\ pc = "rest_build" /\ op = "get_worklists_by_date_range"
    /\ query' = Some(RestQuery(args.start_date, args.end_date))
    /\ pc' = "rest_post"
    /\ UNCHANGED <<op, args, assoc, calledAE, events, status, received,
                   responses, result, report, exitCode, sopUid, files>>
    /\ UNCHANGED xvars
    /\ UNCHANGED cvars

-----------------------------------------------------------------------------
(* dicom_tools.main, retrieval branch: the dataset it builds *)

\* Default dates, then the inline builder; the dataset is then handed to
\* get_worklist_dataset as its `dataset` argument.
main_build ==
    /\ pc = "main_build" /\ op = "main"
    /\ args' = [MainDefaults(args) EXCEPT !.dataset = Some(MainQuery(MainDefaults(args)))]
    /\ query' = Some(MainQuery(MainDefaults(args)))
    /\ pc' = "main_call"
    /\ UNCHANGED <<op, assoc, calledAE, events, status, received,
                   responses, result, report, exitCode, sopUid, files>>
    /\ UNCHANGED xvars
    /\ UNCHANGED cvars

-----------------------------------------------------------------------------
(* get_worklists_by_date_range: the requests after the query is built *)

Call_get_worklists_by_date_range ==
    /\ pc = "idle"
    /\ op' = "get_worklists_by_date_range"
    /\ \E sd \in {Some("20250101")}, ed \in {Some("20250107"), Some("20250101")} :
          args' = Filters(NoArgs, sd, ed, NoneVal, NoneVal)
    /\ pc' = "rest_build"
    /\ UNCHANGED <<assoc, calledAE, events, status, query, received, responses,
                   result, report, exitCode, sopUid, files>>
    /\ UNCHANGED xvars
    /\ UNCHANGED cvars

\* requests.post(find_url, json=query): 200 with a list of identifiers,
\* another status, or an exception.
rest_post ==
    /\ pc = "rest_post" /\ op = "get_worklists_by_date_range"
    /\ \/ \E r \in ResultLists :
             /\ results' = r
             /\ todo' = r
             /\ worklists' = <<>>
             /\ pc' = "rest_loop"
             /\ UNCHANGED result
       \/ /\ result' = Return(ErrorStatus(500))
          /\ pc' = "done"
          /\ UNCHANGED <<results, todo, worklists>>
       \/ /\ result' = Return(ErrorException)
          /\ pc' = "done"
          /\ UNCHANGED <<results, todo, worklists>>
    /\ UNCHANGED <<op, args, assoc, calledAE, events, status, query, received,
                   responses, report, exitCode, sopUid, files, handled,
                   success_count, outcomes>>
    /\ UNCHANGED xvars

\* One turn of `for result in results`: requests.get of the instance
\* answers 200 with its JSON, answers another status, or raises, which ends
\* the function in its except clause.
rest_fetch ==
    /\ pc = "rest_loop" /\ op = "get_worklists_by_date_range"
    /\ todo # <<>>
    /\ handled' = Append(handled, Head(todo))
    /\ \/ \E d \in InstanceData :
             /\ worklists' = Append(worklists, Simplified(Head(todo), d))
             /\ todo' = Tail(todo)
             /\ pc' = "rest_loop"
             /\ UNCHANGED result
       \/ /\ worklists' = FetchFailed(worklists, Head(todo))
          /\ todo' = Tail(todo)
          /\ pc' = "rest_loop"
          /\ UNCHANGED result
       \/ /\ result' = Return(ErrorException)
          /\ pc' = "done"
          /\ UNCHANGED <<worklists, todo>>
    /\ UNCHANGED <<op, args, assoc, calledAE, events, status, query, received,
                   responses, report, exitCode, sopUid, files, results,
                   success_count, outcomes>>
    /\ UNCHANGED xvars

\* return worklists
rest_return ==
    /\ pc = "rest_loop" /\ op = "get_worklists_by_date_range"
    /\ todo = <<>>
    /\ result' = Return(List(worklists))
    /\ pc' = "done"
    /\ UNCHANGED <<op, args, assoc, calledAE, events, status, query, received,
                   responses, report, exitCode, sopUid, files>>
    /\ UNCHANGED xvars
    /\ UNCHANGED cvars

-----------------------------------------------------------------------------
(* worklist_cli.main *)

\* The calls a command makes (create_worklist_item,
\* upload_worklist_to_orthanc, get_worklists_by_date_range,
\* get_worklist_details) are taken with the results their own
\* specifications give them: a returned dict or list, or an exception.

Call_cli_main ==
    /\ pc = "idle"
    /\ op' = "worklist_cli.main"
    /\ \E c \in CommandOptions :
          \/ /\ c # Some("batch")
             /\ args' = [command |-> c]
          \/ /\ c = Some("batch")
             /\ \E f \in FileContents : args' = [command |-> c, file |-> f]
    /\ pc' = "cli_dispatch"
    /\ UNCHANGED <<assoc, calledAE, events, status, query, received, responses,
                   result, report, exitCode, sopUid, files>>
    /\ UNCHANGED xvars
    /\ UNCHANGED cvars

\* No subcommand: parser.print_help(); return 1
cli_no_command ==
    /\ pc = "cli_dispatch" /\ op = "worklist_cli.main"
    /\ args.command = NoneVal
    /\ exitCode' = 1
    /\ pc' = "done"
    /\ UNCHANGED <<op, args, assoc, calledAE, events, status, query, received,
                   responses, result, report, sopUid, files>>
    /\ UNCHANGED xvars
    /\ UNCHANGED cvars

\* create_worklist_command: create_worklist_item and
\* upload_worklist_to_orthanc are not inside a try block, so an exception
\* leaves main; otherwise False for a dict with "error" and True for any
\* other.
create_worklist_command ==
    /\ pc = "cli_dispatch" /\ op = "worklist_cli.main"
    /\ args.command = Some("create")
    /\ \E o \in ItemOutcomes :
          /\ outcomes' = <<o>>
          /\ IF o.kind = "raise"
             THEN /\ result' = o
                  /\ files' = files \cup {<<TempPath, "">>}
                  /\ pc' = "done"
             ELSE /\ result' = Return(CommandTruth(o))
                  /\ pc' = "cli_exit"
                  /\ UNCHANGED files
    /\ UNCHANGED <<op, args, assoc, calledAE, events, status, query, received,
                   responses, report, exitCode, sopUid, results, todo, handled,
                   worklists, success_count>>
    /\ UNCHANGED xvars

\* list_worklists_command: get_worklists_by_date_range returns a list or
\* a dict with "error".
list_worklists_command ==
    /\ pc = "cli_dispatch" /\ op = "worklist_cli.main"
    /\ args.command = Some("list")
    /\ \E o \in {Return(List(<<>>)), Return(ErrorStatus(500)), Return(ErrorException)} :
          /\ outcomes' = <<o>>
          /\ result' = Return(CommandTruth(o))
    /\ pc' = "cli_exit"
    /\ UNCHANGED <<op, args, assoc, calledAE, events, status, query, received,
                   responses, report, exitCode, sopUid, files, results, todo,
                   handled, worklists, success_count>>
    /\ UNCHANGED xvars

\* get_worklist_command: get_worklist_details returns the JSON of the
\* instance or a dict with "error".
get_worklist_command ==
    /\ pc = "cli_dispatch" /\ op = "worklist_cli.main"
    /\ args.command = Some("get")
    /\ \E o \in {Return(d) : d \in InstanceData}
                  \cup {Return(ErrorStatus(404)), Return(ErrorException)} :
          /\ outcomes' = <<o>>
          /\ result' = Return(CommandTruth(o))
    /\ pc' = "cli_exit"
    /\ UNCHANGED <<op, args, assoc, calledAE, events, status, query, received,
                   responses, report, exitCode, sopUid, files, results, todo,
                   handled, worklists, success_count>>
    /\ UNCHANGED xvars

\* batch_create_command up to its loop: a file that cannot be read or
\* does not hold a list returns False.
batch_open ==
    /\ pc = "cli_dispatch" /\ op = "worklist_cli.main"
    /\ args.command = Some("batch")
    /\ IF args.file.kind = "list"
       THEN /\ todo' = args.file.items
            /\ handled' = <<>>
            /\ outcomes' = <<>>
            /\ success_count' = 0
            /\ pc' = "batch_loop"
            /\ UNCHANGED result
       ELSE /\ result' = Return(FALSE)
            /\ pc' = "cli_exit"
            /\ UNCHANGED <<todo, handled, outcomes, success_count>>
    /\ UNCHANGED <<op, args, assoc, calledAE, events, status, query, received,
                   responses, report, exitCode, sopUid, files, results,
                   worklists>>
    /\ UNCHANGED xvars

\* One turn of `for i, item in enumerate(worklist_items, 1)`: the try
\* block ends with a returned dict or with an exception, which is caught
\* and logged; an exception of save_as leaves the temporary file.
batch_item ==
    /\ pc = "batch_loop" /\ op = "worklist_cli.main"
    /\ todo # <<>>
    /\ \E o \in ItemOutcomes :
          /\ outcomes' = Append(outcomes, o)
          /\ success_count' = CountSuccess(success_count, o)
          /\ files' = IF o.kind = "raise" THEN files \cup {<<TempPath, "">>} ELSE files
    /\ handled' = Append(handled, Head(todo))
    /\ todo' = Tail(todo)
    /\ UNCHANGED <<pc, op, args, assoc, calledAE, events, status, query,
                   received, responses, result, report, exitCode, sopUid,
                   results, worklists>>
    /\ UNCHANGED xvars

\* After the loop: the counts are logged; return True
batch_return ==
    /\ pc = "batch_loop" /\ op = "worklist_cli.main"
    /\ todo = <<>>
    /\ result' = Return(TRUE)
    /\ pc' = "cli_exit"
    /\ UNCHANGED <<op, args, assoc, calledAE, events, status, query, received,
                   responses, report, exitCode, sopUid, files>>
    /\ UNCHANGED xvars
    /\ UNCHANGED cvars

\* return 0 if success else 1
cli_exit ==
    /\ pc = "cli_exit" /\ op = "worklist_cli.main"
    /\ exitCode' = ExitStatus(result.value)
    /\ pc' = "done"
    /\ UNCHANGED <<op, args, assoc, calledAE, events, status, query, received,
                   responses, result, report, sopUid, files>>
    /\ UNCHANGED xvars
    /\ UNCHANGED cvars

-----------------------------------------------------------------------------
(* dicom_tools.main: its branches and its return value *)

\* The calls of the branches are taken with the results their own
\* specifications give them.

Call_main ==
    /\ pc = "idle"
    /\ op' = "dicom_tools.main"
    /\ \E a \in MainFlags : args' = a
    /\ todo' = MainSteps
    /\ outcomes' = <<>>
    /\ pc' = "main_branch"
    /\ UNCHANGED <<assoc, calledAE, events, status, query, received, responses,
                   result, report, exitCode, sopUid, files, results, handled,
                   worklists, success_count>>
    /\ UNCHANGED xvars

\* A branch whose condition is false is passed over.
main_skip ==
    /\ pc = "main_branch" /\ op = "dicom_tools.main"
    /\ todo # <<>>
    /\ ~StepRequested(Head(todo), args)
    /\ todo' = Tail(todo)
    /\ UNCHANGED <<pc, op, args, assoc, calledAE, events, status, query,
                   received, responses, result, report, exitCode, sopUid,
                   files, results, handled, worklists, success_count,
                   outcomes>>
    /\ UNCHANGED xvars

\* A branch whose condition is true: the call returns, and main logs the
\* result and goes on, or the call raises, and main logs the exception and
\* returns 1 (an exception of convert_mwl_samples leaves main).
main_branch ==
    /\ pc = "main_branch" /\ op = "dicom_tools.main"
    /\ todo # <<>>
    /\ StepRequested(Head(todo), args)
    /\ \E k \in StepKinds(Head(todo)) :
          /\ outcomes' = Append(outcomes, Step(Head(todo), k))
          /\ IF k # "raise"
             THEN /\ todo' = Tail(todo)
                  /\ UNCHANGED <<pc, exitCode, result>>
             ELSE /\ pc' = "done"
                  /\ IF Head(todo) \in CaughtSteps
                     THEN /\ exitCode' = 1
                          /\ UNCHANGED result
                     ELSE /\ result' = Raise(LibraryError)
                          /\ UNCHANGED exitCode
                  /\ UNCHANGED todo
    /\ UNCHANGED <<op, args, assoc, calledAE, events, status, query,
                   received, responses, report, sopUid, files, results,
                   handled, worklists, success_count>>
    /\ UNCHANGED xvars

\* logger.info('=== Script Complete ==='); return 0
main_complete ==
    /\ pc = "main_branch" /\ op = "dicom_tools.main"
    /\ todo = <<>>
    /\ exitCode' = 0
    /\ pc' = "done"
    /\ UNCHANGED <<op, args, assoc, calledAE, events, status, query, received,
                   responses, result, report, sopUid, files>>
    /\ UNCHANGED xvars
    /\ UNCHANGED cvars

-----------------------------------------------------------------------------
(* Specifications *)

Next ==
    \/ Call_c_echo
    \/ Call_get_worklist
    \/ Call_get_worklist_dataset
    \/ Call_send_worklist_item
    \/ Associate
    \/ c_echo_not_established
    \/ c_echo_send
    \/ c_echo_status
    \/ main_echo
    \/ find_not_established
    \/ get_worklist_build
    \/ get_worklist_dataset_build
    \/ find_send
    \/ find_recv
    \/ find_release
    \/ store_prepare
    \/ store_not_established
    \/ store_send
    \/ store_status

\* One call of one of the four session functions, from its entry to its end.
Spec == Init /\ [][Next]_vars

\* The query builders on their own: the state is the one in which the
\* function is about to build its query (for the C-FIND functions, the
\* association has just been established), the filters range over None, ''
\* and values.
InitQuery ==
    /\ \E sd \in QStartDates, ed \in QEndDates, pn \in QPatientNames, md \in QModalities :
          \/ /\ op \in {"get_worklist", "get_worklist_dataset"}
             /\ \E ip \in Hosts, port \in Ports, ae \in AETitles,
                   ds \in Datasets :
                   /\ op = "get_worklist" => ds = NoneVal
                   /\ args = [Filters(Endpoint(NoArgs, ip, port, ae), sd, ed, pn, md)
                                 EXCEPT !.dataset = ds]
             /\ pc = "check"
             /\ assoc = "established"
             /\ calledAE = args.remote_ae
             /\ events = <<"associate", "accepted">>
          \/ /\ op = "get_worklists_by_date_range"
             /\ args = Filters(NoArgs, sd, ed, NoneVal, NoneVal)
             /\ pc = "rest_build"
             /\ assoc = "none"
             /\ calledAE = ""
             /\ events = <<>>
          \/ /\ op = "main"
             /\ \E ip \in Hosts, port \in Ports, ae \in AETitles :
                   args = Filters(Endpoint(NoArgs, ip, port, ae), sd, ed, pn, md)
             /\ pc = "main_build"
             /\ assoc = "none"
             /\ calledAE = ""
             /\ events = <<>>
    /\ status = EmptyDataset
    /\ query = NoneVal
    /\ received = <<>>
    /\ responses = <<>>
    /\ result = NoResult
    /\ report = NoReport
    /\ exitCode = -1
    /\ sopUid = ""
    /\ files = {}
    /\ generated = <<>>
    /\ fileDataset = NoneVal
    /\ written = NoneVal
    /\ sent = <<>>
    /\ stdout = <<>>
    /\ results = <<>>
    /\ todo = <<>>
    /\ handled = <<>>
    /\ worklists = <<>>
    /\ success_count = 0
    /\ outcomes = <<>>

NextQuery ==
    \/ get_worklist_build
    \/ get_worklist_dataset_build
    \/ rest_build
    \/ main_build

SpecQuery == InitQuery /\ [][NextQuery]_vars

\* Calls of send_worklist_item one after the other, sharing the staging
\* directory and the datasets of the caller.
NextStore ==
    \/ Call_send_worklist_item
    \/ Call_send_worklist_item_again
    \/ store_prepare
    \/ Associate
    \/ store_not_established
    \/ store_send
    \/ store_status

SpecStore == Init /\ [][NextStore]_vars

\* The functions that write an encoded dataset to a file, one call each.
NextFiles ==
    \/ Call_send_worklist_item
    \/ store_prepare
    \/ Associate
    \/ store_not_established
    \/ store_send
    \/ store_status
    \/ convert_request_to_dcm
    \/ convert_response_to_dcm
    \/ Call_upload_worklist_to_orthanc
    \/ upload_save
    \/ upload_post

SpecFiles == Init /\ [][NextFiles]_vars

\* One call of a function that prints datasets: dicom_to_json on a file,
\* display_worklist on a list of items.
NextJson ==
    \/ Call_dicom_to_json
    \/ dicom_to_json
    \/ Call_display_worklist
    \/ display_worklist

SpecJson == Init /\ [][NextJson]_vars

\* One call of create_worklist_item.
NextCreate ==
    \/ Call_create_worklist_item
    \/ batch_create_command
    \/ create_worklist_item

SpecCreate == Init /\ [][NextCreate]_vars

\* One call of get_worklists_by_date_range.
NextRest ==
    \/ Call_get_worklists_by_date_range
    \/ rest_build
    \/ rest_post
    \/ rest_fetch
    \/ rest_return

SpecRest == Init /\ [][NextRest]_vars

\* One run of worklist_cli.main.
NextCli ==
    \/ Call_cli_main
    \/ cli_no_command
    \/ create_worklist_command
    \/ list_worklists_command
    \/ get_worklist_command
    \/ batch_open
    \/ batch_item
    \/ batch_return
    \/ cli_exit

SpecCli == Init /\ [][NextCli]_vars

\* One run of dicom_tools.main.
NextMain ==
    \/ Call_main
    \/ main_skip
    \/ main_branch
    \/ main_complete

SpecMain == Init /\ [][NextMain]_vars

-----------------------------------------------------------------------------
(* Vocabulary of the properties *)

\* The called function has returned or raised.
Done == pc \in {"done", "reported"}

IsSession == op \in {"c_echo", "get_worklist", "get_worklist_dataset", "send_worklist_item"}

Happened(e) == \E i \in 1..Len(events) : events[i] = e

\* The association was requested and the peer did not accept it.
NotAccepted == Happened("associate") /\ ~Happened("accepted")

\* The result tells the caller that the association could not be established.
ToldAssociationFailed(r) ==
    /\ r.kind = "raise"
    /\ r.exc.msg = "Association failed with server"

\* The result carries the endpoint and the remote AE title of the call.
CarriesEndpoint(r, a) ==
    /\ ToldAssociationFailed(r)
    /\ r.exc.ip = a.ip
    /\ r.exc.port = a.port
    /\ r.exc.ae = a.remote_ae

\* Events come in the order associate, answer of the peer, request,
\* responses, release; requests and responses only on an accepted
\* association that has not been taken down; a release is the last event.
OrderOK(ev) ==
    \A i \in 1..Len(ev) :
        /\ ev[i] = "associate" => i = 1
        /\ ev[i] \in {"accepted", "rejected", "failed"} => i = 2 /\ ev[1] = "associate"
        /\ ev[i] \in {"request", "response"} =>
              /\ i > 2
              /\ ev[2] = "accepted"
              /\ \A j \in 1..(i - 1) : ev[j] \notin {"release", "release_timeout", "abort"}
        /\ ev[i] = "response" => \E j \in 1..(i - 1) : ev[j] = "request"
        /\ ev[i] \in {"release", "release_timeout"} =>
              /\ i = Len(ev)
              /\ ev[2] = "accepted"

\* The peer accepted, answered every request with a status, and completed
\* the release when asked; nothing raised on the way.
CooperativePeer ==
    /\ Happened("accepted")
    /\ Happened("response")
    /\ ~Happened("abort")
    /\ ~Happened("raise")
    /\ ~Happened("release_timeout")

\* The datasets of the pending responses received, in the order received.
PendingPrefix == SubSeq(received, 1, Len(received) - 1)

AllPendingWithDataset ==
    \A i \in 1..Len(PendingPrefix) :
        /\ DatasetTruthy(PendingPrefix[i].status)
        /\ PendingPrefix[i].status.Status \in PendingStatuses
        /\ IdentifierTruthy(PendingPrefix[i].identifier)

\* The C-FIND exchange failed: it raised, or its last status is empty or a
\* failure code.
FindFailed ==
    /\ IsFind
    /\ Happened("request")
    /\ \/ Happened("raise")
       \/ /\ received # <<>>
          /\ LET last == received[Len(received)].status
             IN  \/ ~DatasetTruthy(last)
                 \/ /\ DatasetTruthy(last)
                    /\ last.Status \notin ({0} \cup PendingStatuses)

SpsItems(q) == q.ScheduledProcedureStepSequence

-----------------------------------------------------------------------------
(* Properties *)

\* C1: on every exit path of c_echo, get_worklist, get_worklist_dataset and
\* send_worklist_item on which the association was established, the
\* association has been released or aborted exactly once when the function
\* returns or raises.
C1_ReleasedExactlyOnce ==
    (Done /\ IsSession /\ Happened("accepted")) =>
        /\ TearDowns(events) = 1
        /\ assoc \in {"released", "aborted"}

C4_LifecycleOrder ==
    /\ OrderOK(events)
    /\ (Done /\ IsSession /\ CooperativePeer) =>
          /\ assoc = "released"
          /\ events[Len(events)] = "release"

C4_Witness ==
    /\ Done /\ IsFind
    /\ CooperativePeer
    /\ Count(events, "response") = 3
    /\ assoc = "released"

\* C5: when the peer accepts and answers the C-ECHO with status s, c_echo
\* hands s itself to its caller, and the caller reports success for s = 0
\* and a failure naming s otherwise.
C5_EchoStatus ==
    (Done /\ op = "c_echo" /\ Happened("response")) =>
        /\ result = Return(status.Status)
        /\ pc = "reported" =>
              /\ report.status = status.Status
              /\ (report.level = "info") = (status.Status = 0)
              /\ (report.level = "error") = (status.Status # 0)

C5_Witness ==
    /\ pc = "reported" /\ op = "c_echo"
    /\ status = StatusOf(42752)
    /\ result = Return(42752)
    /\ report.level = "error"

\* C6: when the peer sends n pending responses, each with a dataset, and then
\* a final success status, get_worklist and get_worklist_dataset return
\* exactly those n datasets in the order sent.
C6_FindStreaming ==
    (/\ Done /\ IsFind
     /\ ~Happened("raise")
     /\ received # <<>>
     /\ received[Len(received)].status = StatusOf(0)
     /\ AllPendingWithDataset) =>
        /\ result.kind = "return"
        /\ Len(result.value) = Len(received) - 1
        /\ \A i \in 1..Len(result.value) : result.value[i] = received[i].identifier[1]

C6_Witness ==
    /\ Done /\ IsFind
    /\ Len(received) = 3
    /\ received[3].status = StatusOf(0)
    /\ result = Return(<<Match2, Match1>>)

\* C7: when a C-FIND exchange fails after k results were received, the
\* caller gets both the k results and an indication of the failure.
C7_PartialResultsWithFailure ==
    (Done /\ FindFailed) =>
        /\ \/ result.kind = "return" /\ result.value = responses
           \/ result.kind = "raise" /\ "partial" \in DOMAIN result.exc
                 /\ result.exc.partial = responses
        /\ \/ result.kind = "raise"
           \/ "error" \in DOMAIN result

\* C8: send_worklist_item returns True exactly when the association was
\* established and the peer answered the C-STORE with status 0, and False in
\* every other case; it never raises.
C8_StoreResult ==
    (Done /\ op = "send_worklist_item") =>
        /\ result.kind = "return"
        /\ result.value \in BOOLEAN
        /\ result.value =
              (/\ Happened("accepted")
               /\ Happened("response")
               /\ status = StatusOf(0))

C8_Witness ==
    /\ Done /\ op = "send_worklist_item"
    /\ result = Return(TRUE)
    /\ status = StatusOf(0)

\* C9: one call attempts the association at most once and sends at most one
\* DIMSE request, whatever the peer answers.
C9_NoRetry ==
    /\ Count(events, "associate") <= 1
    /\ Count(events, "request") <= 1
    /\ Done /\ IsSession /\ NotAccepted => Len(events) = 2

C9_Witness ==
    /\ Done /\ op = "c_echo"
    /\ Happened("rejected")
    /\ Count(events, "associate") = 1

\* C10: for non-empty start date s and end date e the query built by
\* get_worklist and get_worklist_dataset, and the REST query of
\* get_worklists_by_date_range, has the start-date field s, one hyphen, e.
C10_DateRange ==
    /\ (/\ pc = "send" /\ IsFind
        /\ args.dataset = NoneVal
        /\ StrTruthy(args.start_date) /\ StrTruthy(args.end_date)) =>
          /\ Len(SpsItems(query[1])) = 1
          /\ SpsItems(query[1])[1].ScheduledProcedureStepStartDate =
                args.start_date[1] \o "-" \o args.end_date[1]
    /\ (/\ pc = "rest_post"
        /\ StrTruthy(args.start_date) /\ StrTruthy(args.end_date)) =>
          /\ Len(query[1].Query.ScheduledProcedureStepSequence.Sequence) = 1
          /\ query[1].Query.ScheduledProcedureStepSequence.Sequence[1]
                .ScheduledProcedureStepStartDate =
                args.start_date[1] \o "-" \o args.end_date[1]

C10_Witness ==
    /\ pc = "send" /\ op = "get_worklist"
    /\ args.start_date = Some("20250101")
    /\ args.end_date = Some("20250107")
    /\ SpsItems(query[1])[1].ScheduledProcedureStepStartDate = "20250101-20250107"

\* C11: with no patient-name filter the PatientName of the query built by
\* get_worklist, get_worklist_dataset (no dataset supplied) and
\* dicom_tools.main is "*"; with a filter it is the filter value, the empty
\* string included.
C11_PatientNameDefault ==
    (\/ pc = "send" /\ IsFind /\ args.dataset = NoneVal
     \/ pc = "main_call") =>
        /\ args.patient_name = NoneVal => query[1].PatientName = "*"
        /\ args.patient_name # NoneVal => query[1].PatientName = args.patient_name[1]

C11_Witness ==
    /\ pc = "main_call"
    /\ args.patient_name = NoneVal
    /\ query[1].PatientName = "*"

\* C12: when exactly one of start_date and end_date is a date token, the
\* start-date field of the query built by get_worklist / get_worklist_dataset
\* is that token; when neither is, the field is the empty string.
C12_SingleDateToken ==
    (pc = "send" /\ IsFind /\ args.dataset = NoneVal) =>
        LET field == SpsItems(query[1])[1].ScheduledProcedureStepStartDate
        IN  /\ (StrTruthy(args.start_date) /\ ~StrTruthy(args.end_date)) =>
                  field = args.start_date[1]
            /\ (~StrTruthy(args.start_date) /\ StrTruthy(args.end_date)) =>
                  field = args.end_date[1]
            /\ (~StrTruthy(args.start_date) /\ ~StrTruthy(args.end_date)) =>
                  field = ""

\* C13: in every query built by get_worklist, get_worklist_dataset (no
\* dataset supplied) and dicom_tools.main, the ScheduledProcedureStepSequence
\* has exactly one item, a modality filter is the Modality of that item, and
\* the query has no Modality at its top level.
C13_ModalityPlacement ==
    (\/ pc = "send" /\ IsFind /\ args.dataset = NoneVal
     \/ pc = "main_call") =>
        /\ Len(SpsItems(query[1])) = 1
        /\ StrTruthy(args.modality) =>
              /\ "Modality" \in DOMAIN SpsItems(query[1])[1]
              /\ SpsItems(query[1])[1].Modality = args.modality[1]
        /\ "Modality" \notin DOMAIN query[1]

C13_Witness ==
    /\ pc = "send" /\ op = "get_worklist_dataset"
    /\ args.dataset = NoneVal
    /\ args.modality = Some("US")
    /\ SpsItems(query[1])[1].Modality = "US"

\* The dataset that went out with the C-FIND request.
FindSent == IsFind /\ Happened("request")

HasWorklistLevel(q) ==
    /\ "QueryRetrieveLevel" \in DOMAIN q
    /\ q.QueryRetrieveLevel = "WORKLIST"

\* The dataset sent is the one built from the arguments, or the one the
\* caller supplied, attribute for attribute.
SentUnmodified ==
    /\ args.dataset = NoneVal => query = Some(BuildQuery(args))
    /\ args.dataset # NoneVal => query = args.dataset

\* C14 as stated: every dataset handed to send_c_find has QueryRetrieveLevel
\* 'WORKLIST' and is the built or supplied dataset, unmodified.
C14_FindLevelAndUnmodified ==
    FindSent => (HasWorklistLevel(query[1]) /\ SentUnmodified)

\* C14, amended: every dataset handed to send_c_find is the built or
\* supplied dataset, unmodified, whatever the filter arguments; a dataset
\* the program built has QueryRetrieveLevel 'WORKLIST'.
C14_SentUnmodified ==
    FindSent =>
        /\ SentUnmodified
        /\ args.dataset = NoneVal => HasWorklistLevel(query[1])

C14_Witness ==
    /\ FindSent
    /\ args.dataset = Some(CustomDataset)
    /\ args.patient_name = Some("DOE*")
    /\ query = Some(CustomDataset)

\* The file dataset of the running call of send_worklist_item has been made.
StorePrepared == op = "send_worklist_item" /\ fileDataset # NoneVal

\* The datasets handed to send_c_store by the calls before the running one.
SentBefore ==
    IF StorePrepared /\ Happened("request") THEN SubSeq(sent, 1, Len(sent) - 1) ELSE sent

\* C15: the SOP instance identifier of a call of send_worklist_item is newly
\* generated, it is the one both the file meta and the dataset carry, and no
\* dataset sent by an earlier call carried it, also when the caller sends
\* the dataset of an earlier call again.
C15_FreshInstanceUid ==
    StorePrepared =>
        /\ generated # <<>>
        /\ sopUid = generated[Len(generated)]
        /\ \A i \in 1..(Len(generated) - 1) : generated[i] # sopUid
        /\ fileDataset[1].file_meta.MediaStorageSOPInstanceUID = sopUid
        /\ fileDataset[1].elements.SOPInstanceUID = sopUid
        /\ \A i \in 1..Len(SentBefore) :
              /\ SentBefore[i].elements.SOPInstanceUID # sopUid
              /\ SentBefore[i].file_meta.MediaStorageSOPInstanceUID # sopUid
        /\ Happened("request") => sent[Len(sent)] = fileDataset[1]

\* The dataset of the first call, which then carried another identifier, is
\* sent a second time.
C15_Witness ==
    /\ StorePrepared /\ Happened("request")
    /\ Len(sent) = 2
    /\ sent[1].elements.PatientName = sent[2].elements.PatientName
    /\ sent[1].elements.SOPInstanceUID # sent[2].elements.SOPInstanceUID
    /\ sent[2].elements.SOPInstanceUID = sent[2].file_meta.MediaStorageSOPInstanceUID

\* The file begins with the 128 zero bytes and the prefix, then has the file
\* meta with the transfer syntax and the SOP class and instance identifiers,
\* then the encoded elements.
Part10Layout(f) ==
    /\ Len(f) = 4
    /\ f[1].part = "preamble"
    /\ Len(f[1].value) = PreambleLen
    /\ \A i \in 1..Len(f[1].value) : f[1].value[i] = 0
    /\ f[2].part = "prefix"
    /\ f[3].part = "file_meta"
    /\ {"TransferSyntaxUID", "MediaStorageSOPClassUID", "MediaStorageSOPInstanceUID"}
          \subseteq DOMAIN f[3].value
    /\ f[4].part = "dataset"

\* C16: every file written by send_worklist_item, the converters and
\* upload_worklist_to_orthanc has the preamble, the file meta and the
\* encoded elements, in this order.
C16_FileLayout ==
    written # NoneVal => Part10Layout(written[1])

\* Strict UTF-8: every byte of b belongs to a one-byte or two-byte character.
RECURSIVE DecodesAsUtf8(_)
DecodesAsUtf8(b) ==
    IF b = <<>> THEN TRUE
    ELSE IF b[1] < 128 THEN DecodesAsUtf8(Tail(b))
    ELSE IF b[1] \in 194..223 /\ Len(b) >= 2 /\ b[2] \in 128..191
    THEN DecodesAsUtf8(Tail(Tail(b)))
    ELSE FALSE

\* dicom_to_json has returned the projection of the dataset in the file.
Projected == op = "dicom_to_json" /\ pc = "done" /\ result.kind = "return"

\* The pairs <<dataset, its projection>> at every depth of a dataset ds
\* projected as the dict d.
RECURSIVE Levels(_, _)
Levels(ds, d) ==
    {<<ds, d>>} \cup
    UNION {UNION {Levels(ds[n].value.items[i], d[n].items[i]) :
                     i \in 1..Len(ds[n].value.items)} :
              n \in {m \in DOMAIN ds : ds[m].VR = "SQ" /\ ds[m].value # PyNone}}

IsBinary(elem) == elem.VR # "SQ" /\ elem.value # PyNone /\ elem.value.kind = "bytes"

\* C17: a binary value that is no UTF-8 is projected as the placeholder
\* with its length; only a binary value that is UTF-8 is projected as its
\* decoded text.
C17_UndecodableBinary ==
    Projected =>
        \A l \in Levels(args.file[1], result.value) :
            \A n \in DOMAIN l[1] :
                (IsBinary(l[1][n]) /\ ~DecodesAsUtf8(l[1][n].value.bytes)) =>
                    l[2][n] = Placeholder(l[1][n].value.bytes)

\* C18: at every depth a binary element named Pixel Data is projected as
\* the placeholder with its length, never as decoded text.
C18_PixelDataElided ==
    Projected =>
        \A l \in Levels(args.file[1], result.value) :
            ("Pixel Data" \in DOMAIN l[1] /\ IsBinary(l[1]["Pixel Data"])) =>
                /\ l[2]["Pixel Data"] = Placeholder(l[1]["Pixel Data"].value.bytes)
                /\ l[2]["Pixel Data"].N = Len(l[1]["Pixel Data"].value.bytes)

\* Pixel Data that is valid UTF-8, inside an item of a sequence.
C18_Witness ==
    /\ Projected
    /\ "Icon Image Sequence" \in DOMAIN args.file[1]
    /\ args.file[1]["Icon Image Sequence"].value = PyItems(<<
          ("Modality" :> [VR |-> "CS", value |-> PyValue("US")])
          @@ ("Pixel Data" :> [VR |-> "OW", value |-> PyBytes(<<72, 105>>)]) >>)
    /\ result.value["Icon Image Sequence"].items[1]["Pixel Data"] = Placeholder(<<72, 105>>)

\* display_worklist has printed a list that is not empty.
Displayed(fmt) ==
    /\ op = "display_worklist" /\ pc = "done"
    /\ args.worklist_items # <<>>
    /\ args.output_format = fmt

JsonNull == [json |-> "null"]

\* C19: an attribute that is absent or has no value is null in the JSON
\* printed by dicom_to_json and by display_worklist with 'json', and "N/A"
\* in the text printed by display_worklist.
C19_AbsentMarker ==
    /\ Projected =>
          \A n \in DOMAIN args.file[1] :
              args.file[1][n].value = PyNone => stdout[1][n] = JsonNull
    /\ Displayed("json") =>
          \A i \in 1..Len(args.worklist_items) :
              \A n \in {"PatientName", "PatientID", "AccessionNumber"} :
                  n \notin DOMAIN args.worklist_items[i] =>
                      stdout[1].items[i][n] = JsonNull
    /\ Displayed("text") =>
          \A i \in 1..Len(args.worklist_items) :
              "PatientName" \notin DOMAIN args.worklist_items[i] =>
                  stdout[1].text[i][1].value = "N/A"

\* C20: create_worklist_item called with an empty patient_name or
\* patient_id ends with an error and returns no dataset, also when
\* batch_create_command has filled in '' for a missing key.
C20_ValidationOnCreate ==
    (/\ op \in {"create_worklist_item", "batch_create_command"}
     /\ pc = "done"
     /\ (args.patient_name = "" \/ args.patient_id = "")) =>
        result.kind = "raise"

\* get_worklist or get_worklist_dataset has built its own query.
QueryBuilt == pc = "send" /\ IsFind /\ args.dataset = NoneVal

\* The start-date field of the query built.
StartDateField == SpsItems(query[1])[1].ScheduledProcedureStepStartDate

\* For the filter `field`, '' builds the query that None builds.
EmptyAsAbsent(field) ==
    args[field] = Some("") => query[1] = BuildQuery([args EXCEPT ![field] = NoneVal])

\* C29 as stated: for each of patient_name, start_date, end_date and
\* modality the empty string builds the same query as None.
C29_EmptyEqualsAbsent ==
    QueryBuilt =>
        \A field \in {"patient_name", "start_date", "end_date", "modality"} :
            EmptyAsAbsent(field)

\* C29, amended: for start_date, end_date and modality the empty string
\* builds the same query as None; for patient_name the empty string gives
\* PatientName '' where None gives '*'.
C29_EmptyDateOrModalityEqualsAbsent ==
    QueryBuilt =>
        /\ \A field \in {"start_date", "end_date", "modality"} : EmptyAsAbsent(field)
        /\ args.patient_name = Some("") => query[1].PatientName = ""
        /\ args.patient_name = NoneVal => query[1].PatientName = "*"

C29_Witness ==
    /\ QueryBuilt
    /\ args.start_date = Some("20250101")
    /\ args.end_date = Some("")
    /\ args.modality = Some("")
    /\ args.patient_name = Some("")
    /\ StartDateField = "20250101"
    /\ query[1].PatientName = ""

\* C30: a non-empty end_date is in the start-date field of the query built,
\* after the hyphen when there is a start date and on its own, or after a
\* hyphen, when there is none.
C30_EndDateKept ==
    (QueryBuilt /\ StrTruthy(args.end_date)) =>
        IF StrTruthy(args.start_date)
        THEN StartDateField = args.start_date[1] \o "-" \o args.end_date[1]
        ELSE StartDateField \in {args.end_date[1], "-" \o args.end_date[1]}

\* C24: the staging file of every item that was sent is still in the
\* staging directory with the identifier of that item: no later call of
\* send_worklist_item has written another item to the same path.
C24_StagedFileKept ==
    \A i \in 1..Len(sent) :
        <<StagingPath(sent[i].elements), sent[i].file_meta.MediaStorageSOPInstanceUID>>
            \in files

\* C28: when upload_worklist_to_orthanc has returned or raised, the
\* temporary file it created is no longer there.
C28_TempFileDeleted ==
    (op = "upload_worklist_to_orthanc" /\ pc = "done") =>
        \A f \in files : f[1] # TempPath

\* get_worklists_by_date_range has ended after the find-worklist request
\* was answered with a list of identifiers.
ListingEnded ==
    /\ op = "get_worklists_by_date_range" /\ pc = "done"
    /\ result.kind = "return"
    /\ "error" \notin DOMAIN result.value \/ handled # <<>>

\* C26: the result has one entry for each identifier the find-worklist
\* request returned, in the same order, with ID equal to the identifier.
C26_OneEntryPerIdentifier ==
    ListingEnded =>
        /\ "error" \notin DOMAIN result.value
        /\ Len(result.value.list) = Len(results)
        /\ \A i \in 1..Len(results) : result.value.list[i].ID = results[i]

\* The loop of batch_create_command is running or has ended.
InBatch ==
    /\ op = "worklist_cli.main"
    /\ args.command = Some("batch")
    /\ args.file.kind = "list"
    /\ pc \in {"batch_loop", "cli_exit", "done"}

\* C25: the entries are handled once each in the order of the list,
\* whatever the outcome of the earlier ones; success_count is the number
\* of entries whose upload returned a dict without "error", between 0 and
\* the number of entries; after the loop every entry has been handled.
C25_BatchCount ==
    InBatch =>
        /\ handled \o todo = args.file.items
        /\ Len(outcomes) = Len(handled)
        /\ success_count = Successes(outcomes)
        /\ 0 <= success_count /\ success_count <= Len(args.file.items)
        /\ pc # "batch_loop" => handled = args.file.items

\* A batch of two entries ended; the first raised, the second was
\* uploaded.
C25_Witness ==
    /\ InBatch /\ pc = "done"
    /\ Len(handled) = 2
    /\ outcomes[1].kind = "raise"
    /\ Succeeded(outcomes[2])
    /\ success_count = 1

\* worklist_cli.main has returned.
CliReturned == op = "worklist_cli.main" /\ pc = "done" /\ result.kind # "raise"

\* C21: main returns 0 exactly when a subcommand was given and every
\* operation of it succeeded, and 1 otherwise.
C21_ExitStatus ==
    CliReturned =>
        (exitCode = 0 <=>
            /\ args.command # NoneVal
            /\ (args.command = Some("batch") => args.file.kind = "list")
            /\ \A i \in 1..Len(outcomes) : Succeeded(outcomes[i]))
         /\ exitCode \in {0, 1}

\* dicom_tools.main has returned a value.
MainReturned == op = "dicom_tools.main" /\ pc = "done" /\ result.kind # "raise"

\* The operations whose failure the exit status has to show.
StatusSteps == {"echo", "get_worklist", "create_worklist", "dicom_to_json"}

\* C22: main returns 0 only when every operation it performed succeeded:
\* after a failed echo, retrieval, store or conversion it returns a
\* non-zero value.
C22_FailureExitStatus ==
    MainReturned =>
        (exitCode = 0 =>
            \A i \in 1..Len(outcomes) :
                outcomes[i].step \in StatusSteps => outcomes[i].kind = "ok")

\* The retrieval branch of dicom_tools.main has been entered.
Retrieved ==
    /\ op = "dicom_tools.main"
    /\ \E i \in 1..Len(outcomes) : outcomes[i].step = "get_worklist"

\* --get-worklist is given, or no action flag at all.
RetrievalAsked(a) ==
    a.get_worklist \/ (~a.convert /\ ~a.echo /\ ~a.sample_worklist
                          /\ ~a.create_worklist /\ ~a.dicom_to_json)

\* C27: the retrieval is performed only with --get-worklist or with no
\* action flag at all.
C27_RetrievalOnlyWhenAsked ==
    Retrieved => RetrievalAsked(args)

====
